---- MODULE Spec2Model ----
(***************************************************************************)
(* changelog-generator: the generate command (ref mode and timeline mode), *)
(* the GitHub client (commit ranges, release discovery, segmentation) and  *)
(* the generator that drives the language model.                           *)
(*                                                                         *)
(* Strings that the code takes apart (the ref argument) are sequences of   *)
(* one-character strings.  Instants are day numbers; day 0 is Go's zero    *)
(* time.Time.                                                              *)
(***************************************************************************)
EXTENDS Integers, Sequences, FiniteSets, TLC

\* ---------------------------------------------------------------- bounds
MaxArgLen == 4        \* longest ref argument given on the command line
MaxDate == 2          \* latest day number
MaxTags == 2          \* most tags the host lists
MaxReleases == 1      \* most releases the host lists
MaxCommits == 1       \* most commits in one comparison (run level)
MaxRangeCommits == 3  \* most commits in one comparison (GetCommitRange alone)
MaxFiles == 2         \* most files the host reports for one commit
MaxPage == 2          \* largest page number the host answers
MaxRequests == 4      \* most page requests of one listing
MaxDiffLen == 6       \* most characters of a diff drawn character by character
MaxDiffLines == 12    \* most lines of a diff drawn line by line
MaxLineLimit == 3     \* largest line limit TruncateDiff is called with on its own
MaxKindFiles == 5     \* most files of a commit whose files are of every kind
MaxCommitFiles == 22   \* most files of a commit whose files are of one kind
MaxSpaces == 1        \* most white space characters on one side of a fence
MaxCategories == 3    \* most categories of a response
MaxHashLen == 9       \* longest hash of an entry
MaxScore == 100       \* largest importance score of an entry, in tenths
MaxPromptCommits == 2 \* most commits of a request whose prompt is built on its own

Dates == 0..MaxDate
ZeroTime == 0

\* ------------------------------------------------------------ sequences
RECURSIVE SeqsUpTo(_, _)
SeqsUpTo(S, n) ==
    IF n = 0 THEN {<<>>}
    ELSE LET shorter == SeqsUpTo(S, n - 1)
         IN  shorter \cup {Append(s, x) : s \in {t \in shorter : Len(t) = n - 1}, x \in S}

Range(s) == {s[i] : i \in 1..Len(s)}

Injective(s) == \A i, j \in 1..Len(s) : i # j => s[i] # s[j]

\* ------------------------------------------------ command line and config
RefChars == {"a", "."}
RefArgs == SeqsUpTo(RefChars, MaxArgLen)
ArgLists == {<<>>} \cup {<<s>> : s \in RefArgs}

DateStrs ==
    {[k |-> "empty", d |-> 0], [k |-> "bad", d |-> 0]}
        \cup {[k |-> "date", d |-> x] : x \in Dates}

\* time.Parse("2006-01-02", s)
ParseDate(s) ==
    IF s.k = "date" THEN [ok |-> TRUE, t |-> s.d] ELSE [ok |-> FALSE, t |-> ZeroTime]

OutputPaths == {<<"-">>, <<>>, <<"CHANGELOG.md">>, <<"out.md">>}

Configs ==
    [GitHubToken : {"", "tok"}, OpenAIAPIKey : {"", "key"},
     RepoOwner : {"", "o"}, RepoName : {"", "r"},
     OutputPath : OutputPaths,
     IncludeAuthors : {TRUE}, ShowScores : {FALSE}, MinScore : {0}]

\* strings.Split(s, ".."): cut at every occurrence found scanning left to right
RECURSIVE SplitFrom(_, _)
SplitFrom(s, cur) ==
    IF Len(s) = 0 THEN <<cur>>
    ELSE IF Len(s) >= 2 /\ s[1] = "." /\ s[2] = "."
         THEN <<cur>> \o SplitFrom(SubSeq(s, 3, Len(s)), <<>>)
         ELSE SplitFrom(Tail(s), Append(cur, Head(s)))

Split(s) == SplitFrom(s, <<>>)

\* Config.Validate
Validate(c) ==
    IF c.GitHubToken = "" THEN "GitHub token is required"
    ELSE IF c.OpenAIAPIKey = "" THEN "OpenAI API key is required"
    ELSE ""

\* Config.ValidateTimeline, on the dates runTimelineMode stored in the config
ValidateTimeline(fromDate, toDate) ==
    IF fromDate = ZeroTime THEN "from-date is required in timeline mode"
    ELSE IF toDate = ZeroTime THEN "to-date is required in timeline mode"
    ELSE IF fromDate > toDate THEN "from-date must be before to-date"
    ELSE ""

\* Config.ValidateRepository
ValidateRepository(c) ==
    IF c.RepoOwner = "" THEN "repository owner is required"
    ELSE IF c.RepoName = "" THEN "repository name is required"
    ELSE ""

\* one call to a remote service
Call(api, op, a, b) == [api |-> api, op |-> op, a |-> a, b |-> b]

NoStr == <<>>

\* what the command has done when it reaches the generator (or gave up)
Outcome(e, cs, c, m, f, t, fd, td) ==
    [err |-> e, calls |-> cs, cfg |-> c, mode |-> m, from |-> f, to |-> t,
     fromDate |-> fd, toDate |-> td]

\* runRefMode with the access validation moved ahead of the checks of the configuration
RunRefModeAccessFirst(c, commitRange, accessOk) ==
    LET parts == Split(commitRange)
        access == <<Call("github", "Get", NoStr, NoStr)>>
        Failed(e, cs) == Outcome(e, cs, c, "ref", NoStr, NoStr, ZeroTime, ZeroTime)
    IN  IF Len(parts) # 2 THEN Failed("invalid commit range format", <<>>)
        ELSE IF parts[1] = <<>> \/ parts[2] = <<>>
             THEN Failed("both 'from' and 'to' refs must be specified", <<>>)
        ELSE IF ~accessOk THEN Failed("GitHub access validation failed", access)
        ELSE IF Validate(c) # "" THEN Failed(Validate(c), access)
        ELSE IF ValidateRepository(c) # "" THEN Failed(ValidateRepository(c), access)
        ELSE Outcome("", access, c, "ref", parts[1], parts[2], ZeroTime, ZeroTime)

\* runRefMode up to the call of gen.Generate
RunRefMode(c, commitRange, accessOk) ==
    LET parts == Split(commitRange)
        access == <<Call("github", "Get", NoStr, NoStr)>>
        Failed(e, cs) == Outcome(e, cs, c, "ref", NoStr, NoStr, ZeroTime, ZeroTime)
    IN  IF Len(parts) # 2 THEN Failed("invalid commit range format", <<>>)
        ELSE IF parts[1] = <<>> \/ parts[2] = <<>>
             THEN Failed("both 'from' and 'to' refs must be specified", <<>>)
        ELSE IF Validate(c) # "" THEN Failed(Validate(c), <<>>)
        ELSE IF ValidateRepository(c) # "" THEN Failed(ValidateRepository(c), <<>>)
        ELSE IF ~accessOk THEN Failed("GitHub access validation failed", access)
        ELSE Outcome("", access, c, "ref", parts[1], parts[2], ZeroTime, ZeroTime)

\* runTimelineMode up to the call of gen.GenerateTimeline
RunTimelineMode(c, fromDateStr, toDateStr, accessOk) ==
    LET f == ParseDate(fromDateStr)
        t == ParseDate(toDateStr)
        access == <<Call("github", "Get", NoStr, NoStr)>>
        Early(e) == Outcome(e, <<>>, c, "timeline", NoStr, NoStr, ZeroTime, ZeroTime)
        Failed(e, cs) == Outcome(e, cs, c, "timeline", NoStr, NoStr, f.t, t.t)
    IN  IF fromDateStr.k = "empty" \/ toDateStr.k = "empty"
        THEN Early("both --from-date and --to-date are required")
        ELSE IF ~f.ok THEN Early("invalid --from-date format")
        ELSE IF ~t.ok THEN Early("invalid --to-date format")
        ELSE IF Validate(c) # "" THEN Failed(Validate(c), <<>>)
        ELSE IF ValidateTimeline(f.t, t.t) # ""
             THEN Failed(ValidateTimeline(f.t, t.t), <<>>)
        ELSE IF ValidateRepository(c) # "" THEN Failed(ValidateRepository(c), <<>>)
        ELSE IF ~accessOk THEN Failed("GitHub access validation failed", access)
        ELSE Outcome("", access, c, "timeline", NoStr, NoStr, f.t, t.t)

\* promptForRepository: the answers are validated as non-empty (survey.Required)
Prompts == {"off", "fail", "ok"}

\* runGenerate: interactive selection, mode detection and routing
RunGenerateOutcome(c, prompt, args, fromDateStr, toDateStr, accessOk) ==
    LET c1 == IF prompt = "ok" THEN [c EXCEPT !.RepoOwner = "o", !.RepoName = "r"] ELSE c
        hasDateFlags == fromDateStr.k # "empty" \/ toDateStr.k # "empty"
        hasRefArg == Len(args) = 1
        Failed(e) == Outcome(e, <<>>, c1, "none", NoStr, NoStr, ZeroTime, ZeroTime)
    IN  IF prompt = "fail" THEN Failed("repository selection")
        ELSE IF hasDateFlags /\ hasRefArg
        THEN Failed("cannot use both date flags and ref argument")
        ELSE IF ~hasDateFlags /\ ~hasRefArg
        THEN Failed("must specify either date range or ref range")
        ELSE IF hasDateFlags THEN RunTimelineMode(c1, fromDateStr, toDateStr, accessOk)
        ELSE RunRefMode(c1, args[1], accessOk)

\* the errors that report a configuration problem
ConfigErrors ==
    {"cannot use both date flags and ref argument",
     "must specify either date range or ref range",
     "invalid commit range format",
     "both 'from' and 'to' refs must be specified",
     "both --from-date and --to-date are required",
     "invalid --from-date format", "invalid --to-date format",
     "GitHub token is required", "OpenAI API key is required",
     "from-date is required in timeline mode", "to-date is required in timeline mode",
     "from-date must be before to-date",
     "repository owner is required", "repository name is required"}

\* ------------------------------------------------------- the GitHub client
NameList == <<<<"a">>, <<"b">>, <<"c">>>>
Names == Range(NameList)
FileNameList(n) == [i \in 1..n |-> <<"f", ToString(i)>>]

\* what the host answers to Repositories.GetCommit
HostFile(n) == [Filename |-> n, Status |-> "modified", Additions |-> 1, Deletions |-> 0,
                Patch |-> <<>>]
FileLists(n) == {[i \in 1..k |-> HostFile(FileNameList(n)[i])] : k \in 0..n}
DetailResults(n) == {[ok |-> FALSE, Files |-> <<>>]} \cup {[ok |-> TRUE, Files |-> fs] : fs \in FileLists(n)}

NoCommit == [SHA |-> NoStr, FilesChanged |-> <<>>]

\* GetCommitDetails: one Repositories.GetCommit; the message, author, date
\* and stats are copied from the answer and carried along unchanged
GetCommitDetails(sha, detail) ==
    IF ~detail.ok THEN [err |-> "get commit", data |-> NoCommit]
    ELSE [err |-> "",
          data |-> [SHA |-> sha,
                    FilesChanged |->
                        [i \in 1..Len(detail.Files) |->
                            [Filename |-> detail.Files[i].Filename,
                             Status |-> detail.Files[i].Status,
                             Additions |-> detail.Files[i].Additions,
                             Deletions |-> detail.Files[i].Deletions,
                             Patch |-> detail.Files[i].Patch]]]]

\* the loop of GetCommitRange skipping the commits whose details fail
RECURSIVE FetchAllSkipFailed(_, _, _, _)
FetchAllSkipFailed(shas, details, commits, calls) ==
    IF shas = <<>> THEN [err |-> "", commits |-> commits, calls |-> calls]
    ELSE LET fullCommit == GetCommitDetails(Head(shas), Head(details))
             calls1 == Append(calls, Call("github", "GetCommit", Head(shas), NoStr))
         IN  FetchAllSkipFailed(Tail(shas), Tail(details),
                                IF fullCommit.err # "" THEN commits
                                ELSE Append(commits, fullCommit.data), calls1)

\* the loop of GetCommitRange over comparison.Commits
RECURSIVE FetchAll(_, _, _, _)
FetchAll(shas, details, commits, calls) ==
    IF shas = <<>> THEN [err |-> "", commits |-> commits, calls |-> calls]
    ELSE LET fullCommit == GetCommitDetails(Head(shas), Head(details))
             calls1 == Append(calls, Call("github", "GetCommit", Head(shas), NoStr))
         IN  IF fullCommit.err # ""
             THEN [err |-> "get commit details", commits |-> <<>>, calls |-> calls1]
             ELSE FetchAll(Tail(shas), Tail(details), Append(commits, fullCommit.data), calls1)

\* GetCommitRange: one comparison, then one detail fetch per commit of it
GetCommitRange(from, to, comparison, details) ==
    LET compare == <<Call("github", "CompareCommits", from, to)>>
    IN  IF ~comparison.ok THEN [err |-> "compare commits", commits |-> <<>>, calls |-> compare]
        ELSE FetchAll(comparison.Commits, details, <<>>, compare)

\* a comparison and the answers to the detail fetches it leads to
HostRanges(shaLists, results) ==
    {[comparison |-> [ok |-> FALSE, Commits |-> <<>>], details |-> <<>>]}
        \cup UNION {{[comparison |-> [ok |-> TRUE, Commits |-> cs], details |-> ds] :
                        ds \in {d \in SeqsUpTo(results, Len(cs)) : Len(d) = Len(cs)}} :
                    cs \in shaLists}

\* ------------------------------------------------------ release discovery
TagInfos(names, dates) == [Name : names, CommitDate : dates]
ReleaseInfos(names, dates, flags) ==
    [TagName : names, PublishedAt : dates, Draft : BOOLEAN, Prerelease : flags]

\* the tag lists a host can hold: a repository has one tag per name
TagLists(names, dates, n) ==
    {s \in SeqsUpTo(TagInfos(names, dates), n) :
        \A i, j \in 1..Len(s) : i # j => s[i].Name # s[j].Name}

ReleaseLists(names, dates, flags, n) == SeqsUpTo(ReleaseInfos(names, dates, flags), n)

\* the answer of ListAllTags or ListAllReleases: an error, or the whole list
Listings(lists) == {[ok |-> FALSE, items |-> <<>>]} \cup {[ok |-> TRUE, items |-> l] : l \in lists}

\* refMap[k] = v
Put(m, k, v) == [x \in DOMAIN m \cup {k} |-> IF x = k THEN v ELSE m[x]]

\* the window test without its upper end
InWindowNoEnd(d, from, to) == d = from \/ d > from

\* (d.Equal(from) || d.After(from)) && (d.Equal(to) || d.Before(to))
InWindow(d, from, to) == (d = from \/ d > from) /\ (d = to \/ d < to)

\* the loop that adds the tags to refMap
RECURSIVE AddTags(_, _, _, _)
AddTags(refMap, tags, from, to) ==
    IF tags = <<>> THEN refMap
    ELSE LET tag == Head(tags)
             next == IF InWindow(tag.CommitDate, from, to)
                     THEN Put(refMap, tag.Name,
                              [Name |-> tag.Name, Date |-> tag.CommitDate,
                               Type |-> "tag", IsPrerelease |-> FALSE])
                     ELSE refMap
         IN  AddTags(next, Tail(tags), from, to)

\* the loop over the releases without the skip of the drafts
RECURSIVE AddReleasesWithDrafts(_, _, _, _)
AddReleasesWithDrafts(refMap, releases, from, to) ==
    IF releases = <<>> THEN refMap
    ELSE LET release == Head(releases)
             pubDate == release.PublishedAt
             next == IF (pubDate = from \/ pubDate > from) /\ (pubDate = to \/ pubDate < to)
                     THEN [x \in DOMAIN refMap \cup {release.TagName} |->
                              IF x = release.TagName
                              THEN [Name |-> release.TagName, Date |-> pubDate,
                                    Type |-> "release", IsPrerelease |-> release.Prerelease]
                              ELSE refMap[x]]
                     ELSE refMap
         IN  AddReleasesWithDrafts(next, Tail(releases), from, to)

\* the loop that adds the releases to refMap
RECURSIVE AddReleases(_, _, _, _)
AddReleases(refMap, releases, from, to) ==
    IF releases = <<>> THEN refMap
    ELSE LET release == Head(releases)
             pubDate == release.PublishedAt
             next == IF release.Draft THEN refMap
                     ELSE IF InWindow(pubDate, from, to)
                     THEN Put(refMap, release.TagName,
                              [Name |-> release.TagName, Date |-> pubDate,
                               Type |-> "release", IsPrerelease |-> release.Prerelease])
                     ELSE refMap
         IN  AddReleases(next, Tail(releases), from, to)

\* the two loops in the other order: a tag overwrites the release of its name
RefMapTagsLast(tags, releases, from, to) ==
    AddTags(AddReleases(<<>>, releases, from, to), tags, from, to)

\* refMap after the two loops: the tags first, then the releases
RefMapOf(tags, releases, from, to) ==
    AddReleases(AddTags(<<>>, tags, from, to), releases, from, to)

\* the orders in which `for _, ref := range refMap` can visit the map
Orders(refMap) ==
    {o \in SeqsUpTo(DOMAIN refMap, Cardinality(DOMAIN refMap)) :
        Len(o) = Cardinality(DOMAIN refMap) /\ Injective(o)}

\* a less function that orders by date descending
LessAfter(x, y) == x.Date > y.Date

\* the less function handed to sort.Slice
Less(x, y) == x.Date < y.Date

Swap(s, i, j) == [s EXCEPT ![i] = s[j], ![j] = s[i]]

\* sort.Slice on a slice of at most 12 elements is an insertion sort
RECURSIVE InsertLeft(_, _)
InsertLeft(s, j) ==
    IF j > 1 /\ Less(s[j], s[j - 1]) THEN InsertLeft(Swap(s, j, j - 1), j - 1) ELSE s

RECURSIVE InsertionSort(_, _)
InsertionSort(s, i) == IF i > Len(s) THEN s ELSE InsertionSort(InsertLeft(s, i), i + 1)

SortSlice(s) == InsertionSort(s, 2)

\* GetReleaseRefsInTimeline that goes on with the tags when the releases
\* cannot be listed
GetReleaseRefsInTimelineTagsOnly(tagsRes, relsRes, from, to, order) ==
    LET listTags == <<Call("github", "ListTags", NoStr, NoStr)>>
        listBoth == Append(listTags, Call("github", "ListReleases", NoStr, NoStr))
        refMap == RefMapOf(tagsRes.items, relsRes.items, from, to)
    IN  IF ~tagsRes.ok THEN [err |-> "fetch tags", refs |-> <<>>, calls |-> listTags]
        ELSE [err |-> "",
              refs |-> SortSlice([i \in 1..Len(order) |-> refMap[order[i]]]),
              calls |-> listBoth]

\* GetReleaseRefsInTimeline, given the answers of the two listings and the
\* order in which the map is visited
GetReleaseRefsInTimeline(tagsRes, relsRes, from, to, order) ==
    LET listTags == <<Call("github", "ListTags", NoStr, NoStr)>>
        listBoth == Append(listTags, Call("github", "ListReleases", NoStr, NoStr))
        refMap == RefMapOf(tagsRes.items, relsRes.items, from, to)
    IN  IF ~tagsRes.ok THEN [err |-> "fetch tags", refs |-> <<>>, calls |-> listTags]
        ELSE IF ~relsRes.ok THEN [err |-> "fetch releases", refs |-> <<>>, calls |-> listBoth]
        ELSE [err |-> "",
              refs |-> SortSlice([i \in 1..Len(order) |-> refMap[order[i]]]),
              calls |-> listBoth]

\* a TimelineRelease with the two ends exchanged
TimelineReleaseSwapped(fromRef, toRef, commits) ==
    [FromRef |-> toRef.Name, ToRef |-> fromRef.Name,
     FromDate |-> toRef.Date, ToDate |-> fromRef.Date,
     CommitCount |-> Len(commits), Commits |-> commits]

\* the TimelineRelease GetTimelineReleases builds for one pair
TimelineRelease(fromRef, toRef, commits) ==
    [FromRef |-> fromRef.Name, ToRef |-> toRef.Name,
     FromDate |-> fromRef.Date, ToDate |-> toRef.Date,
     CommitCount |-> Len(commits), Commits |-> commits]

\* --------------------------------------------------------- the generator
ChangelogRequest(commitInfos, c, from, to) ==
    [Commits |-> commitInfos, RepoName |-> <<c.RepoOwner, "/", c.RepoName>>,
     FromRef |-> from, ToRef |-> to]

NoMarkdown == <<>>

\* a ReleaseChangelog that carries the refs of its segment exchanged
ReleaseChangelogSwapped(release, response) ==
    [FromRef |-> release.ToRef, ToRef |-> release.FromRef,
     FromDate |-> release.FromDate, ToDate |-> release.ToDate,
     Summary |-> response.Summary, Highlights |-> response.Highlights,
     Categories |-> response.Categories, Commits |-> release.Commits]

\* the ReleaseChangelog GenerateTimeline builds for one segment
ReleaseChangelog(release, response) ==
    [FromRef |-> release.FromRef, ToRef |-> release.ToRef,
     FromDate |-> release.FromDate, ToDate |-> release.ToDate,
     Summary |-> response.Summary, Highlights |-> response.Highlights,
     Categories |-> response.Categories, Commits |-> release.Commits]

\* formatTimelineAsMarkdown: title, date range, one section per release
\* (GenerateTimeline sets no pull requests on a release)
RECURSIVE ReleaseSections(_, _)
ReleaseSections(rels, i) ==
    IF i > Len(rels) THEN <<>>
    ELSE <<<<"## [Release", rels[i].ToRef>>, <<"_No pull requests in this release._">>>>
            \o (IF i < Len(rels) THEN <<<<"---">>>> ELSE <<>>)
            \o ReleaseSections(rels, i + 1)

formatTimelineAsMarkdown(repoName, from, to, rels) ==
    <<<<"# Release Notes:", repoName>>, <<"**Timeline:**", ToString(from), ToString(to)>>>>
        \o ReleaseSections(rels, 1)

\* runTimelineMode with the output path left as configured
TimelineOutputPathKept(c, from, to) == c.OutputPath

\* the file name runTimelineMode derives when the output path is the default
TimelineOutputPath(c, from, to) ==
    IF c.OutputPath = <<"CHANGELOG.md">> \/ c.OutputPath = <<>>
    THEN <<c.RepoName, "-", ToString(from), "-", ToString(to), "-changelog.md">>
    ELSE c.OutputPath

\* Generate without its test for an empty range
NoCommitsFoundNever(cs) == FALSE

\* Generate: len(commits) == 0
NoCommitsFound(cs) == Len(cs) = 0

\* GetTimelineReleases that also refuses a single reference point
NoRefsFoundBelowTwo(rs) == Len(rs) < 2

\* GetTimelineReleases without its test for an empty timeline
NoRefsFoundNever(rs) == FALSE

\* GetTimelineReleases: len(refs) == 0
NoRefsFound(rs) == Len(rs) = 0

\* a failed fetch that keeps the segments built so far
SegmentsKept(built) == built

\* GetTimelineReleases: a failed fetch returns nil for the segments
SegmentsOnFailure(built) == <<>>

\* ------------------------------------------- the paginated listings
\* what the host answers to one page request: an error, or the items of the
\* page and the page to ask for next (0 for none)
PageNumbers == 0..MaxPage

\* a tag of a page, and whether the commit lookup for it succeeds
HostTag(n, found) == [Name |-> n, CommitDate |-> 1, found |-> found]
HostRelease(n) ==
    [TagName |-> n, PublishedAt |-> 1, CreatedAt |-> 1, Draft |-> FALSE, Prerelease |-> FALSE]

TagPageItems ==
    {<<>>, <<HostTag(<<"a">>, TRUE)>>, <<HostTag(<<"b">>, TRUE)>>, <<HostTag(<<"a">>, FALSE)>>}
ReleasePageItems == {<<>>, <<HostRelease(<<"a">>)>>, <<HostRelease(<<"b">>)>>}

PageResponses(itemLists) ==
    {[ok |-> FALSE, items |-> <<>>, NextPage |-> 0]}
        \cup {[ok |-> TRUE, items |-> l, NextPage |-> n] : l \in itemLists, n \in PageNumbers}

\* the host: the answer to the request of each page
PagedHosts(itemLists) == [PageNumbers -> PageResponses(itemLists)]

\* ListAllTags: the loop over the tags of one page, one commit lookup each
RECURSIVE TagsOfPage(_, _, _)
TagsOfPage(items, i, allTags) ==
    IF i > Len(items) THEN [ok |-> TRUE, items |-> allTags]
    ELSE IF ~items[i].found THEN [ok |-> FALSE, items |-> <<>>]
    ELSE TagsOfPage(items, i + 1,
                    Append(allTags, [Name |-> items[i].Name, CommitDate |-> items[i].CommitDate]))

\* ListAllReleases: the loop over the releases of one page
RECURSIVE ReleasesOfPage(_, _, _)
ReleasesOfPage(items, i, allReleases) ==
    IF i > Len(items) THEN [ok |-> TRUE, items |-> allReleases]
    ELSE ReleasesOfPage(items, i + 1, Append(allReleases, items[i]))

\* a failed page that returns the items gathered so far
ListErrorPartial(all) == [ok |-> FALSE, items |-> all]

\* ListAllTags, ListAllReleases: return nil, err
ListError(all) == [ok |-> FALSE, items |-> <<>>]

\* one turn of the loop of ListAllTags (f = "ListAllTags") or ListAllReleases:
\* the page opts.Page is requested from the host and its items are appended
ListPageTurn(f, host, opts, all) ==
    LET resp == host[opts.Page]
        got == IF f = "ListAllTags" THEN TagsOfPage(resp.items, 1, all)
               ELSE ReleasesOfPage(resp.items, 1, all)
    IN  IF ~resp.ok \/ ~got.ok
        THEN [pc |-> "return", opts |-> opts, all |-> all, ret |-> ListError(all)]
        ELSE IF resp.NextPage = 0
        THEN [pc |-> "return", opts |-> opts, all |-> got.items,
              ret |-> [ok |-> TRUE, items |-> got.items]]
        ELSE [pc |-> "loop", opts |-> [Page |-> resp.NextPage], all |-> got.items,
              ret |-> <<>>]

\* ------------------------------------------------------ the diff texts
\* a diff is the sequence of its characters
DiffChars == {"+", "-", " ", "\n"}

\* strings.Split(s, "\n")
RECURSIVE SplitLinesFrom(_, _)
SplitLinesFrom(s, cur) ==
    IF s = <<>> THEN <<cur>>
    ELSE IF Head(s) = "\n" THEN <<cur>> \o SplitLinesFrom(Tail(s), <<>>)
    ELSE SplitLinesFrom(Tail(s), Append(cur, Head(s)))

SplitLines(s) == SplitLinesFrom(s, <<>>)

\* strings.Join(lines, "\n")
RECURSIVE JoinLines(_)
JoinLines(lines) ==
    IF lines = <<>> THEN <<>>
    ELSE IF Len(lines) = 1 THEN lines[1]
    ELSE lines[1] \o <<"\n">> \o JoinLines(Tail(lines))

\* strings.HasPrefix
HasPrefix(s, prefix) == Len(s) >= Len(prefix) /\ SubSeq(s, 1, Len(prefix)) = prefix

\* TruncateDiff that cuts a diff of exactly maxLines lines too
TruncateDiffAtLimit(diff, maxLines) ==
    LET lines == SplitLines(diff)
    IN  IF Len(lines) < maxLines THEN diff
        ELSE JoinLines(SubSeq(lines, 1, maxLines))
                \o <<"\n... (", ToString(Len(lines) - maxLines), " more lines truncated)">>

\* TruncateDiff: the first maxLines lines and a note of how many were cut
TruncateDiff(diff, maxLines) ==
    LET lines == SplitLines(diff)
    IN  IF Len(lines) <= maxLines THEN diff
        ELSE JoinLines(SubSeq(lines, 1, maxLines))
                \o <<"\n... (", ToString(Len(lines) - maxLines), " more lines truncated)">>

\* SummarizeDiff: the loop that counts the additions and the deletions
RECURSIVE CountLines(_, _, _, _)
CountLines(lines, i, additions, deletions) ==
    IF i > Len(lines) THEN [additions |-> additions, deletions |-> deletions]
    ELSE IF HasPrefix(lines[i], <<"+">>) /\ ~HasPrefix(lines[i], <<"+", "+", "+">>)
    THEN CountLines(lines, i + 1, additions + 1, deletions)
    ELSE IF HasPrefix(lines[i], <<"-">>) /\ ~HasPrefix(lines[i], <<"-", "-", "-">>)
    THEN CountLines(lines, i + 1, additions, deletions + 1)
    ELSE CountLines(lines, i + 1, additions, deletions)

\* SummarizeDiff: "+%d/-%d lines. Sample:\n%s"
SummarizeDiff(diff) ==
    IF diff = <<>> THEN <<>>
    ELSE LET n == CountLines(SplitLines(diff), 1, 0, 0)
             sample == TruncateDiff(diff, 10)
         IN  <<"+", ToString(n.additions), "/-", ToString(n.deletions), " lines. Sample:\n">>
                \o sample

\* -------------------------------------------------- the commit summarizer
\* prepareCommitsForLLM that drops the files after the 20th without a word
FileNamesOfSilentCut(commit) ==
    LET fileNames == [i \in 1..Len(commit.FilesChanged) |-> commit.FilesChanged[i].Filename]
    IN  IF Len(fileNames) > 20
        THEN SubSeq(fileNames, 1, 20)
        ELSE fileNames

\* prepareCommitsForLLM: the file names of a commit, the first 20 and a
\* count of the rest when there are more
FileNamesOf(commit) ==
    LET fileNames == [i \in 1..Len(commit.FilesChanged) |-> commit.FilesChanged[i].Filename]
    IN  IF Len(fileNames) > 20
        THEN Append(SubSeq(fileNames, 1, 20),
                    <<"... and ", ToString(Len(fileNames) - 20), " more files">>)
        ELSE fileNames

\* the loop over the files that takes a file with 10 changed lines as significant
RECURSIVE SignificantChangesFrom10(_, _, _)
SignificantChangesFrom10(files, i, significantChanges) ==
    IF i > Len(files) THEN significantChanges
    ELSE LET file == files[i]
             summary == SummarizeDiff(file.Patch)
         IN  IF file.Additions + file.Deletions >= 10 /\ file.Patch # <<>> /\ summary # <<>>
             THEN SignificantChangesFrom10(files, i + 1,
                      Append(significantChanges, file.Filename \o <<": ">> \o summary))
             ELSE SignificantChangesFrom10(files, i + 1, significantChanges)

\* prepareCommitsForLLM: the loop over the files that gathers "filename:
\* summary" for the files with more than 10 changed lines and a patch
RECURSIVE SignificantChanges(_, _, _)
SignificantChanges(files, i, significantChanges) ==
    IF i > Len(files) THEN significantChanges
    ELSE LET file == files[i]
             summary == SummarizeDiff(file.Patch)
         IN  IF file.Additions + file.Deletions > 10 /\ file.Patch # <<>> /\ summary # <<>>
             THEN SignificantChanges(files, i + 1,
                      Append(significantChanges, file.Filename \o <<": ">> \o summary))
             ELSE SignificantChanges(files, i + 1, significantChanges)

\* prepareCommitsForLLM: the diff summary of a commit, at most 3 entries
DiffSummaryOf(commit) ==
    IF Len(commit.FilesChanged) > 0
    THEN LET significantChanges == SignificantChanges(commit.FilesChanged, 1, <<>>)
         IN  IF Len(significantChanges) > 0
             THEN JoinLines(IF Len(significantChanges) > 3
                            THEN SubSeq(significantChanges, 1, 3)
                            ELSE significantChanges)
             ELSE <<>>
    ELSE <<>>

prepareCommitsForLLM(commits) ==
    [i \in 1..Len(commits) |->
        [SHA |-> commits[i].SHA, FilesChanged |-> FileNamesOf(commits[i]),
         DiffSummary |-> DiffSummaryOf(commits[i])]]

\* the zero ChangelogResponse, also standing for the nil a failure returns
NoResponse == [Summary |-> "", Highlights |-> <<>>, Categories |-> <<>>]

\* ------------------------------------------- the answer of the language model
\* a text is the sequence of its characters
\* (the backquote character is written "^")
Fence == <<"^", "^", "^">>
JsonFence == <<"^", "^", "^", "j", "s", "o", "n">>

\* the white space strings.TrimSpace removes, and the part of it JSON allows
SpaceChars == {" ", "\n", "\f"}
JsonSpaceChars == {" ", "\n"}

RECURSIVE TrimLeft(_, _)
TrimLeft(s, cutset) ==
    IF s # <<>> /\ Head(s) \in cutset THEN TrimLeft(Tail(s), cutset) ELSE s

RECURSIVE TrimRight(_, _)
TrimRight(s, cutset) ==
    IF s # <<>> /\ s[Len(s)] \in cutset THEN TrimRight(SubSeq(s, 1, Len(s) - 1), cutset) ELSE s

\* strings.TrimSpace
TrimSpace(s) == TrimRight(TrimLeft(s, SpaceChars), SpaceChars)

\* strings.TrimPrefix
TrimPrefix(s, prefix) ==
    IF HasPrefix(s, prefix) THEN SubSeq(s, Len(prefix) + 1, Len(s)) ELSE s

\* strings.HasSuffix, strings.TrimSuffix
HasSuffix(s, suffix) ==
    Len(s) >= Len(suffix) /\ SubSeq(s, Len(s) - Len(suffix) + 1, Len(s)) = suffix
TrimSuffix(s, suffix) ==
    IF HasSuffix(s, suffix) THEN SubSeq(s, 1, Len(s) - Len(suffix)) ELSE s

\* the JSON texts of the model: {} , {"summary":"s1"} and []
EmptyObject == <<"{", "}">>
SummaryObject ==
    <<"{", "\"", "s", "u", "m", "m", "a", "r", "y", "\"", ":", "\"", "s", "1", "\"", "}">>
EmptyArray == <<"[", "]">>

\* json.Unmarshal into a ChangelogResponse: white space around the value is
\* skipped, an object sets the fields it names, an array does not fit the
\* struct, and any other text of the model is no JSON
Unmarshal(text) ==
    LET value == TrimRight(TrimLeft(text, JsonSpaceChars), JsonSpaceChars)
    IN  IF value = EmptyObject THEN [err |-> "", response |-> NoResponse]
        ELSE IF value = SummaryObject
        THEN [err |-> "", response |-> [NoResponse EXCEPT !.Summary = "s1"]]
        ELSE IF value = EmptyArray
        THEN [err |-> "json: cannot unmarshal array", response |-> NoResponse]
        ELSE [err |-> "json: syntax error", response |-> NoResponse]

\* ParseChangelogResponse that strips the bare fence before the json fence
ParseChangelogResponseBareFenceFirst(jsonStr) ==
    LET s1 == TrimSpace(jsonStr)
        s2 == TrimPrefix(s1, Fence)
        s3 == TrimPrefix(s2, JsonFence)
        s4 == TrimSuffix(s3, Fence)
        s5 == TrimSpace(s4)
        parsed == Unmarshal(s5)
    IN  IF parsed.err # ""
        THEN [err |-> "parse JSON response", cause |-> parsed.err, response |-> NoResponse]
        ELSE [err |-> "", cause |-> "", response |-> parsed.response]

\* ParseChangelogResponse: the fences and the white space around them are
\* stripped and the rest is parsed as JSON
ParseChangelogResponse(jsonStr) ==
    LET s1 == TrimSpace(jsonStr)
        s2 == TrimPrefix(s1, JsonFence)
        s3 == TrimPrefix(s2, Fence)
        s4 == TrimSuffix(s3, Fence)
        s5 == TrimSpace(s4)
        parsed == Unmarshal(s5)
    IN  IF parsed.err # ""
        THEN [err |-> "parse JSON response", cause |-> parsed.err, response |-> NoResponse]
        ELSE [err |-> "", cause |-> "", response |-> parsed.response]

\* what the language model can answer to one request: a failure, no choice,
\* or a first choice with a text
LLMOutcomes(contents) ==
    {[kind |-> k, content |-> <<>>] : k \in {"error", "no choices"}}
        \cup {[kind |-> "choice", content |-> t] : t \in contents}

\* GenerateChangelog that asks again when the answer does not parse
GenerateChangelogRetry(req, outcome) ==
    LET request == <<Call("openai", "ChatCompletion", req.FromRef, req.ToRef)>>
        parsed == ParseChangelogResponse(outcome.content)
    IN  IF outcome.kind = "error"
        THEN [err |-> "create chat completion", response |-> NoResponse, calls |-> request]
        ELSE IF outcome.kind = "no choices"
        THEN [err |-> "no response from OpenAI", response |-> NoResponse, calls |-> request]
        ELSE IF parsed.err # ""
        THEN [err |-> "parse changelog response", response |-> NoResponse,
              calls |-> request \o request]
        ELSE [err |-> "", response |-> parsed.response, calls |-> request]

\* OpenAIClient.GenerateChangelog: one chat completion request
GenerateChangelog(req, outcome) ==
    LET request == <<Call("openai", "ChatCompletion", req.FromRef, req.ToRef)>>
        parsed == ParseChangelogResponse(outcome.content)
    IN  IF outcome.kind = "error"
        THEN [err |-> "create chat completion", response |-> NoResponse, calls |-> request]
        ELSE IF outcome.kind = "no choices"
        THEN [err |-> "no response from OpenAI", response |-> NoResponse, calls |-> request]
        ELSE IF parsed.err # ""
        THEN [err |-> "parse changelog response", response |-> NoResponse, calls |-> request]
        ELSE [err |-> "", response |-> parsed.response, calls |-> request]

\* run level: the model answers with a JSON object or with a text that is none
RunContents == {SummaryObject, <<"x">>}

\* ------------------------------------------------------- the renderer
\* CategoryEmojis, CategoryOrder (the emojis are written by their names, the
\* bullet of the other categories "bullet")
CategoryEmojis ==
    [category \in {"Features", "Improvements", "Bug Fixes", "Breaking Changes",
                   "Documentation", "Internal"} |->
        CASE category = "Features" -> "rocket"
          [] category = "Improvements" -> "zap"
          [] category = "Bug Fixes" -> "bug"
          [] category = "Breaking Changes" -> "boom"
          [] category = "Documentation" -> "books"
          [] category = "Internal" -> "wrench"]

\* CategoryOrder in the order of the letters
CategoryOrderSorted ==
    <<"Breaking Changes", "Bug Fixes", "Documentation", "Features", "Improvements",
      "Internal">>

CategoryOrder ==
    <<"Breaking Changes", "Features", "Improvements", "Bug Fixes", "Documentation",
      "Internal">>

\* getScoreIndicator with each bound left out of its band
getScoreIndicatorAbove(score) ==
    IF score > 90 THEN "red"
    ELSE IF score > 70 THEN "orange"
    ELSE IF score > 50 THEN "yellow"
    ELSE IF score > 30 THEN "green"
    ELSE "white"

\* getScoreIndicator (a score is counted in tenths)
getScoreIndicator(score) ==
    IF score >= 90 THEN "red"
    ELSE IF score >= 70 THEN "orange"
    ELSE IF score >= 50 THEN "yellow"
    ELSE IF score >= 30 THEN "green"
    ELSE "white"

\* the two copies of FormatMarkdown in formatter.go: the earlier one slices
\* entry.SHA[:7] as it is, the current one only when the hash is longer
Copies == {"earlier", "current"}

\* whether the slice expression of a copy fails at run time
SliceFails(copy, sha) == copy = "earlier" /\ Len(sha) < 7

\* shortSHA: entry.SHA[:7], in the current copy under len(shortSHA) > 7
ShortSHAOf(copy, sha) ==
    IF copy = "earlier" THEN SubSeq(sha, 1, 7)
    ELSE IF Len(sha) > 7 THEN SubSeq(sha, 1, 7) ELSE sha

\* the indented lines of a description, the empty ones left out
RECURSIVE DescriptionLines(_, _)
DescriptionLines(lines, i) ==
    IF i > Len(lines) THEN <<>>
    ELSE (IF lines[i] # <<>> THEN <<<<"  ", lines[i], "\n">>>> ELSE <<>>)
            \o DescriptionLines(lines, i + 1)

\* the skip that leaves out an entry at the minimum score too
BelowMinScoreOrAt(entry, c) == c.MinScore > 0 /\ entry.ImportanceScore <= c.MinScore

\* cfg.MinScore > 0 && entry.ImportanceScore < cfg.MinScore
BelowMinScore(entry, c) == c.MinScore > 0 /\ entry.ImportanceScore < c.MinScore

\* what FormatMarkdown writes for one entry; the current copy skips an entry
\* below the minimum score and can show the score
EntryText(copy, entry, c) ==
    IF copy = "current" /\ BelowMinScore(entry, c) THEN <<>>
    ELSE LET commitLink ==
                 <<"https://github.com/", c.RepoOwner, "/", c.RepoName, "/commit/", entry.SHA>>
         IN  <<<<"- **", entry.Title, "** ([^", ShortSHAOf(copy, entry.SHA), "^](",
                 commitLink, "))">>>>
                \o (IF copy = "current" /\ c.ShowScores
                    THEN <<<<" ", getScoreIndicator(entry.ImportanceScore), " **[",
                             ToString(entry.ImportanceScore \div 10), ".",
                             ToString(entry.ImportanceScore % 10), "]**">>>>
                    ELSE <<>>)
                \o (IF c.IncludeAuthors /\ entry.Author # ""
                    THEN <<<<" by @", entry.Author>>>> ELSE <<>>)
                \o <<<<"\n">>>>
                \o (IF entry.Description # <<>>
                    THEN DescriptionLines(SplitLines(entry.Description), 1) ELSE <<>>)
                \o <<<<"\n">>>>

RECURSIVE EntriesText(_, _, _, _)
EntriesText(copy, entries, i, c) ==
    IF i > Len(entries) THEN <<>>
    ELSE EntryText(copy, entries[i], c) \o EntriesText(copy, entries, i + 1, c)

\* the loop over CategoryOrder that looks for entries after the filter
RECURSIVE KnownCategoriesTextFiltered(_, _, _, _)
KnownCategoriesTextFiltered(copy, response, i, c) ==
    IF i > Len(CategoryOrder) THEN <<>>
    ELSE LET category == CategoryOrder[i]
             exists == category \in DOMAIN response.Categories
         IN  (IF ~exists \/ EntriesText(copy, response.Categories[category], 1, c) = <<>>
              THEN <<>>
              ELSE <<<<"## ", CategoryEmojis[category], " ", category, "\n\n">>>>
                      \o EntriesText(copy, response.Categories[category], 1, c))
                \o KnownCategoriesTextFiltered(copy, response, i + 1, c)

\* the loop over CategoryOrder
RECURSIVE KnownCategoriesText(_, _, _, _)
KnownCategoriesText(copy, response, i, c) ==
    IF i > Len(CategoryOrder) THEN <<>>
    ELSE LET category == CategoryOrder[i]
             exists == category \in DOMAIN response.Categories
         IN  (IF ~exists \/ Len(response.Categories[category]) = 0 THEN <<>>
              ELSE LET emoji == IF category \in DOMAIN CategoryEmojis
                                THEN CategoryEmojis[category] ELSE "bullet"
                   IN  <<<<"## ", emoji, " ", category, "\n\n">>>>
                          \o EntriesText(copy, response.Categories[category], 1, c))
                \o KnownCategoriesText(copy, response, i + 1, c)

\* the loop over the map of the categories that renders the known ones again
RECURSIVE OtherCategoriesTextAll(_, _, _, _, _)
OtherCategoriesTextAll(copy, response, order, i, c) ==
    IF i > Len(order) THEN <<>>
    ELSE LET category == order[i]
             entries == response.Categories[category]
         IN  (IF Len(entries) = 0 THEN <<>>
              ELSE <<<<"## ", "bullet", " ", category, "\n\n">>>>
                      \o EntriesText(copy, entries, 1, c))
                \o OtherCategoriesTextAll(copy, response, order, i + 1, c)

\* the loop over the map of the categories, in the order the map is visited
RECURSIVE OtherCategoriesText(_, _, _, _, _)
OtherCategoriesText(copy, response, order, i, c) ==
    IF i > Len(order) THEN <<>>
    ELSE LET category == order[i]
             entries == response.Categories[category]
             alreadyProcessed == \E k \in 1..Len(CategoryOrder) : category = CategoryOrder[k]
         IN  (IF alreadyProcessed \/ Len(entries) = 0 THEN <<>>
              ELSE <<<<"## ", "bullet", " ", category, "\n\n">>>>
                      \o EntriesText(copy, entries, 1, c))
                \o OtherCategoriesText(copy, response, order, i + 1, c)

RECURSIVE HighlightsText(_, _)
HighlightsText(highlights, i) ==
    IF i > Len(highlights) THEN <<>>
    ELSE <<<<"- star ", highlights[i], "\n">>>> \o HighlightsText(highlights, i + 1)

\* the entries whose hash the earlier copy slices: all of them, since a
\* category that is not empty is rendered by one of the two loops
EntriesReached(response) ==
    UNION {{response.Categories[category][i] : i \in 1..Len(response.Categories[category])} :
              category \in DOMAIN response.Categories}

\* a copy of FormatMarkdown: what it wrote, piece by piece, or a run-time
\* failure and nothing returned
FormatMarkdownCopy(copy, response, from, to, c, order) ==
    IF \E entry \in EntriesReached(response) : SliceFails(copy, entry.SHA)
    THEN [panic |-> TRUE, text |-> <<>>]
    ELSE [panic |-> FALSE,
          text |->
             <<<<"# Changelog: ", from, " -> ", to, "\n\n">>>>
                \o (IF response.Summary # ""
                    THEN <<<<"## Summary\n\n">>, <<response.Summary>>, <<"\n\n">>>> ELSE <<>>)
                \o (IF Len(response.Highlights) > 0
                    THEN <<<<"## Highlights\n\n">>>> \o HighlightsText(response.Highlights, 1)
                            \o <<<<"\n">>>>
                    ELSE <<>>)
                \o KnownCategoriesText(copy, response, 1, c)
                \o OtherCategoriesText(copy, response, order, 1, c)]

\* FormatMarkdown, the current copy
FormatMarkdown(response, from, to, c, order) ==
    FormatMarkdownCopy("current", response, from, to, c, order)

\* formatAsMarkdown: FormatMarkdown with the configuration of the generator;
\* the response of a run has no categories
formatAsMarkdown(response, from, to, c) ==
    FormatMarkdown(response, from, to, c, <<>>).text

\* ---------------------------------------------------------- the prompt
\* what BuildChangelogPrompt writes for the commits from the i-th on
RECURSIVE CommitsText(_, _)
CommitsText(commitInfos, i) ==
    IF i > Len(commitInfos) THEN <<>>
    ELSE LET commit == commitInfos[i]
         IN  <<<<ToString(i), ". Commit: ", SubSeq(commit.SHA, 1, 8), "\n">>,
               <<"   Author: ", commit.Author, "\n">>,
               <<"   Date: ", ToString(commit.Date), "\n">>,
               <<"   Message: ", commit.Message, "\n">>>>
                \o (IF Len(commit.FilesChanged) > 0
                    THEN <<<<"   Files: ", commit.FilesChanged, "\n">>>> ELSE <<>>)
                \o (IF commit.Stats # ""
                    THEN <<<<"   Stats: ", commit.Stats, "\n">>>> ELSE <<>>)
                \o (IF commit.DiffSummary # ""
                    THEN <<<<"   Changes: ", commit.DiffSummary, "\n">>>> ELSE <<>>)
                \o <<<<"\n">>>>
                \o CommitsText(commitInfos, i + 1)

\* BuildChangelogPrompt: what it wrote, piece by piece, or a run-time failure
\* of commit.SHA[:8] and nothing returned; the instructions that follow the
\* commits are one piece
BuildChangelogPrompt(req) ==
    IF \E i \in 1..Len(req.Commits) : Len(req.Commits[i].SHA) < 8
    THEN [panic |-> TRUE, text |-> <<>>]
    ELSE [panic |-> FALSE,
          text |->
             <<<<"You are a technical writer creating a changelog for a software release.\n\n">>,
               <<"Repository: ", req.RepoName, "\n">>,
               <<"Range: ", req.FromRef, " -> ", req.ToRef, "\n\n">>,
               <<"Total commits: ", ToString(Len(req.Commits)), "\n\n">>,
               <<"Commits (most recent first):\n">>,
               <<"---\n\n">>>>
                \o CommitsText(req.Commits, 1)
                \o <<<<"---\n\n">>, <<"Generate a structured changelog with:\n\n">>>>]

\* ------------------------------------------------------------- the state
VARIABLES
    cfg,               \* the global configuration
    pc,                \* where the command is
    err,               \* the error the command ends with, "" for none
    calls,             \* the calls made to the repository host and the model, in order
    mode,              \* "ref" or "timeline"
    from, to,          \* the refs of ref mode
    fromDate, toDate,  \* the window of timeline mode
    tags, releases,    \* what ListAllTags and ListAllReleases returned
    refs,              \* what GetReleaseRefsInTimeline returned
    hostRange,         \* the host's answers to the last GetCommitRange
    rangeResult,       \* what the last GetCommitRange returned
    timelineReleases,  \* the segments GetTimelineReleases has built
    commits,           \* the commits Generate works on
    requests,          \* the requests sent to the language model
    response,          \* the response Generate got
    releaseChangelogs, \* the release changelogs GenerateTimeline has built
    markdown,          \* the markdown of the changelog returned
    stdout,            \* the changelogs printed
    files,             \* the files written, by path
    fn,                \* the function called on its own, "none" inside a command
    arg,               \* its arguments and what its callees answer
    loc,               \* its local variables
    ret                \* what it returned

\* the state of a command
run == <<cfg, pc, err, calls, mode, from, to, fromDate, toDate, tags, releases, refs,
         hostRange, rangeResult, timelineReleases, commits, requests, response,
         releaseChangelogs, markdown, stdout, files>>

\* the state of a function called on its own
unit == <<fn, arg, loc, ret>>

vars == <<run, unit>>

NoRange == [comparison |-> [ok |-> FALSE, Commits |-> <<>>], details |-> <<>>]
NoResult == [err |-> "", commits |-> <<>>, calls |-> <<>>]
NoListing == [ok |-> FALSE, items |-> <<>>]

\* everything but the configuration, before the command runs
Fresh ==
    /\ err = ""
    /\ calls = <<>>
    /\ from = NoStr /\ to = NoStr
    /\ fromDate = ZeroTime /\ toDate = ZeroTime
    /\ tags = NoListing /\ releases = NoListing
    /\ refs = <<>>
    /\ hostRange = NoRange
    /\ rangeResult = NoResult
    /\ timelineReleases = <<>>
    /\ commits = <<>>
    /\ requests = <<>>
    /\ response = NoResponse
    /\ releaseChangelogs = <<>>
    /\ markdown = NoMarkdown
    /\ stdout = <<>>
    /\ files = <<>>

\* no function is called on its own
NoCall == fn = "none" /\ arg = <<>> /\ loc = <<>> /\ ret = <<>>

\* the command starts with the configuration config.Load produced
Init ==
    /\ cfg \in Configs
    /\ pc = "start"
    /\ mode = "none"
    /\ Fresh
    /\ NoCall

\* ----------------------------------------------------------- the actions
\* runGenerate, up to the call of the generator
RunGenerate ==
    /\ pc = "start"
    /\ \E prompt \in Prompts, args \in ArgLists, fromDateStr \in DateStrs,
          toDateStr \in DateStrs, accessOk \in BOOLEAN :
          LET o == RunGenerateOutcome(cfg, prompt, args, fromDateStr, toDateStr, accessOk)
          IN  /\ cfg' = o.cfg
              /\ err' = o.err
              /\ calls' = calls \o o.calls
              /\ mode' = o.mode
              /\ from' = o.from /\ to' = o.to
              /\ fromDate' = o.fromDate /\ toDate' = o.toDate
              /\ pc' = IF o.err # "" THEN "done"
                       ELSE IF o.mode = "ref" THEN "Generate" ELSE "GenerateTimeline"
    /\ UNCHANGED <<tags, releases, refs, hostRange, rangeResult, timelineReleases, commits,
                   requests, response, releaseChangelogs, markdown, stdout, files>>
    /\ UNCHANGED unit

\* Generate: the commits are fetched and counted
FetchCommits(ranges) ==
    /\ pc = "Generate"
    /\ \E h \in ranges :
          LET r == GetCommitRange(from, to, h.comparison, h.details)
          IN  /\ hostRange' = h
              /\ rangeResult' = r
              /\ calls' = calls \o r.calls
              /\ IF r.err # ""
                 THEN err' = r.err /\ commits' = <<>> /\ pc' = "done"
                 ELSE IF NoCommitsFound(r.commits)
                 THEN err' = "no commits found" /\ commits' = <<>> /\ pc' = "done"
                 ELSE err' = "" /\ commits' = r.commits /\ pc' = "GenerateChangelog"
    /\ UNCHANGED <<cfg, mode, from, to, fromDate, toDate, tags, releases, refs,
                   timelineReleases, requests, response, releaseChangelogs, markdown,
                   stdout, files>>
    /\ UNCHANGED unit

\* Generate: the request to the language model and the formatting
SendChangelogRequest ==
    /\ pc = "GenerateChangelog"
    /\ \E outcome \in LLMOutcomes(RunContents) :
          LET req == ChangelogRequest(prepareCommitsForLLM(commits), cfg, from, to)
              r == GenerateChangelog(req, outcome)
          IN  /\ requests' = Append(requests, req)
              /\ calls' = calls \o r.calls
              /\ IF r.err # ""
                 THEN err' = r.err /\ pc' = "done" /\ UNCHANGED <<response, markdown>>
                 ELSE /\ err' = ""
                      /\ response' = r.response
                      /\ markdown' = formatAsMarkdown(r.response, from, to, cfg)
                      /\ pc' = "writeOutput"
    /\ UNCHANGED <<cfg, mode, from, to, fromDate, toDate, tags, releases, refs, hostRange,
                   rangeResult, timelineReleases, commits, releaseChangelogs, stdout, files>>
    /\ UNCHANGED unit

\* writeOutput: to standard output, or to the file (which the system may refuse)
WriteTo(path, text, writeOk) ==
    IF path = <<"-">> \/ path = <<>>
    THEN stdout' = Append(stdout, text) /\ err' = "" /\ UNCHANGED files
    ELSE IF writeOk
    THEN files' = Put(files, path, text) /\ err' = "" /\ UNCHANGED stdout
    ELSE err' = "write output file" /\ UNCHANGED <<stdout, files>>

\* runRefMode: the changelog is written
WriteOutput ==
    /\ pc = "writeOutput"
    /\ \E writeOk \in BOOLEAN : WriteTo(cfg.OutputPath, markdown, writeOk)
    /\ pc' = "done"
    /\ UNCHANGED <<cfg, calls, mode, from, to, fromDate, toDate, tags, releases, refs,
                   hostRange, rangeResult, timelineReleases, commits, requests, response,
                   releaseChangelogs, markdown>>
    /\ UNCHANGED unit

\* GetTimelineReleases: the reference points are discovered and counted
DiscoverReleases(tagLists, releaseLists) ==
    /\ pc = "GenerateTimeline"
    /\ \E tagsRes \in Listings(tagLists), relsRes \in Listings(releaseLists) :
          \E order \in Orders(RefMapOf(tagsRes.items, relsRes.items, fromDate, toDate)) :
             LET r == GetReleaseRefsInTimeline(tagsRes, relsRes, fromDate, toDate, order)
             IN  /\ tags' = tagsRes
                 /\ releases' = IF tagsRes.ok THEN relsRes ELSE NoListing
                 /\ calls' = calls \o r.calls
                 /\ refs' = r.refs
                 /\ IF r.err # "" THEN err' = r.err /\ pc' = "done"
                    ELSE IF NoRefsFound(r.refs)
                    THEN err' = "no tags or releases found" /\ pc' = "done"
                    ELSE err' = "" /\ pc' = IF Len(r.refs) > 1 THEN "segments" ELSE "releases"
    /\ UNCHANGED <<cfg, mode, from, to, fromDate, toDate, hostRange, rangeResult,
                   timelineReleases, commits, requests, response, releaseChangelogs,
                   markdown, stdout, files>>
    /\ UNCHANGED unit

\* GetTimelineReleases: one turn of the loop over the consecutive pairs
FetchSegment(ranges) ==
    /\ pc = "segments"
    /\ \E h \in ranges :
          LET i == Len(timelineReleases) + 1
              fromRef == refs[i]
              toRef == refs[i + 1]
              r == GetCommitRange(fromRef.Name, toRef.Name, h.comparison, h.details)
          IN  /\ hostRange' = h
              /\ rangeResult' = r
              /\ calls' = calls \o r.calls
              /\ IF r.err # ""
                 THEN /\ err' = "get commits"
                      /\ timelineReleases' = SegmentsOnFailure(timelineReleases)
                      /\ pc' = "done"
                 ELSE /\ err' = ""
                      /\ timelineReleases' =
                            Append(timelineReleases, TimelineRelease(fromRef, toRef, r.commits))
                      /\ pc' = IF i + 1 < Len(refs) THEN "segments" ELSE "releases"
    /\ UNCHANGED <<cfg, mode, from, to, fromDate, toDate, tags, releases, refs, commits,
                   requests, response, releaseChangelogs, markdown, stdout, files>>
    /\ UNCHANGED unit

\* GenerateTimeline: one turn of the loop over the segments
GenerateRelease ==
    /\ pc = "releases"
    /\ Len(releaseChangelogs) < Len(timelineReleases)
    /\ \E outcome \in LLMOutcomes(RunContents) :
          LET release == timelineReleases[Len(releaseChangelogs) + 1]
              req == ChangelogRequest(prepareCommitsForLLM(release.Commits), cfg,
                                      release.FromRef, release.ToRef)
              r == GenerateChangelog(req, outcome)
          IN  /\ requests' = Append(requests, req)
              /\ calls' = calls \o r.calls
              /\ IF r.err # ""
                 THEN err' = r.err /\ releaseChangelogs' = <<>> /\ pc' = "done"
                 ELSE /\ err' = ""
                      /\ releaseChangelogs' =
                            Append(releaseChangelogs, ReleaseChangelog(release, r.response))
                      /\ pc' = "releases"
    /\ UNCHANGED <<cfg, mode, from, to, fromDate, toDate, tags, releases, refs, hostRange,
                   rangeResult, timelineReleases, commits, response, markdown, stdout, files>>
    /\ UNCHANGED unit

\* GenerateTimeline returns the timeline and runTimelineMode writes it
WriteTimeline ==
    /\ pc = "releases"
    /\ Len(releaseChangelogs) = Len(timelineReleases)
    /\ LET repoName == <<cfg.RepoOwner, "/", cfg.RepoName>>
           text == formatTimelineAsMarkdown(repoName, fromDate, toDate, releaseChangelogs)
           path == TimelineOutputPath(cfg, fromDate, toDate)
       IN  /\ markdown' = text
           /\ cfg' = [cfg EXCEPT !.OutputPath = path]
           /\ \E writeOk \in BOOLEAN : WriteTo(path, text, writeOk)
    /\ pc' = "done"
    /\ UNCHANGED <<calls, mode, from, to, fromDate, toDate, tags, releases, refs, hostRange,
                   rangeResult, timelineReleases, commits, requests, response,
                   releaseChangelogs>>
    /\ UNCHANGED unit

\* ------------------------------------------------- the data of the hosts
CommitList == [i \in 1..MaxRangeCommits |-> <<"c", ToString(i)>>]

\* run level: a comparison holds the first commits of the history, without files
RunRanges ==
    HostRanges({SubSeq(CommitList, 1, k) : k \in 0..MaxCommits}, DetailResults(0))
\* run level: the host lists its tags in the order of their names
InNameOrder(s) ==
    \A i, j \in 1..Len(s) :
        i < j => \E k, l \in 1..Len(NameList) :
                    k < l /\ NameList[k] = s[i].Name /\ NameList[l] = s[j].Name
RunTagLists == {s \in TagLists(Names, Dates, MaxTags) : InNameOrder(s)}
\* run level: at most one release, named as the first tag name
RunReleaseLists == ReleaseLists({NameList[1]}, Dates, {FALSE}, 1)

Next ==
    \/ RunGenerate
    \/ FetchCommits(RunRanges)
    \/ SendChangelogRequest
    \/ WriteOutput
    \/ DiscoverReleases(RunTagLists, RunReleaseLists)
    \/ FetchSegment(RunRanges)
    \/ GenerateRelease
    \/ WriteTimeline

Spec == Init /\ [][Next]_vars

\* --------------------------------------- release discovery on its own
GoodConfig ==
    [GitHubToken |-> "tok", OpenAIAPIKey |-> "key", RepoOwner |-> "o", RepoName |-> "r",
     OutputPath |-> <<"CHANGELOG.md">>, IncludeAuthors |-> TRUE, ShowScores |-> FALSE,
     MinScore |-> 0]

RefNames == {<<"a">>, <<"b">>}
RichTagLists == TagLists(RefNames, Dates, MaxTags)
RichReleaseLists == ReleaseLists(RefNames, Dates, BOOLEAN, MaxReleases)

\* GetTimelineReleases is entered with a window that passed ValidateTimeline
InitRefs ==
    /\ cfg = GoodConfig
    /\ pc = "GenerateTimeline"
    /\ mode = "timeline"
    /\ err = ""
    /\ calls = <<>>
    /\ from = NoStr /\ to = NoStr
    /\ fromDate \in Dates /\ toDate \in Dates
    /\ ValidateTimeline(fromDate, toDate) = ""
    /\ tags = NoListing /\ releases = NoListing
    /\ refs = <<>>
    /\ hostRange = NoRange
    /\ rangeResult = NoResult
    /\ timelineReleases = <<>>
    /\ commits = <<>>
    /\ requests = <<>>
    /\ response = NoResponse
    /\ releaseChangelogs = <<>>
    /\ markdown = NoMarkdown
    /\ stdout = <<>>
    /\ files = <<>>
    /\ NoCall

NextRefs == DiscoverReleases(RichTagLists, RichReleaseLists)

SpecRefs == InitRefs /\ [][NextRefs]_vars

\* ------------------------------------------- GetCommitRange on its own
RichRanges ==
    HostRanges({s \in SeqsUpTo(Range(CommitList), MaxRangeCommits) : Injective(s)},
               DetailResults(MaxFiles))

\* Generate is entered with the refs a..a
InitRange ==
    /\ cfg = GoodConfig
    /\ pc = "Generate"
    /\ mode = "ref"
    /\ err = ""
    /\ calls = <<>>
    /\ from = <<"a">> /\ to \in {<<"a">>, <<".">>}
    /\ fromDate = ZeroTime /\ toDate = ZeroTime
    /\ tags = NoListing /\ releases = NoListing
    /\ refs = <<>>
    /\ hostRange = NoRange
    /\ rangeResult = NoResult
    /\ timelineReleases = <<>>
    /\ commits = <<>>
    /\ requests = <<>>
    /\ response = NoResponse
    /\ releaseChangelogs = <<>>
    /\ markdown = NoMarkdown
    /\ stdout = <<>>
    /\ files = <<>>
    /\ NoCall

NextRange == FetchCommits(RichRanges)

SpecRange == InitRange /\ [][NextRange]_vars

\* --------------------------------- ListAllTags, ListAllReleases on their own
IdleRun ==
    /\ cfg = GoodConfig
    /\ pc = "done"
    /\ mode = "none"
    /\ Fresh

\* the client asks for the first page with opts.Page = 0
InitPages ==
    /\ IdleRun
    /\ \/ fn = "ListAllTags" /\ arg \in PagedHosts(TagPageItems)
       \/ fn = "ListAllReleases" /\ arg \in PagedHosts(ReleasePageItems)
    /\ loc = [pc |-> "loop", opts |-> [Page |-> 0], all |-> <<>>, asked |-> <<>>]
    /\ ret = <<>>

ListPage(f) ==
    /\ fn = f
    /\ loc.pc = "loop"
    /\ Len(loc.asked) < MaxRequests
    /\ LET t == ListPageTurn(f, arg, loc.opts, loc.all)
       IN  /\ loc' = [pc |-> t.pc, opts |-> t.opts, all |-> t.all,
                      asked |-> Append(loc.asked, loc.opts.Page)]
           /\ ret' = t.ret
    /\ UNCHANGED <<fn, arg>>
    /\ UNCHANGED run

ListTagsPage == ListPage("ListAllTags")
ListReleasesPage == ListPage("ListAllReleases")

NextPages == ListTagsPage \/ ListReleasesPage

\* the loop goes on as long as the host answers
SpecPages == InitPages /\ [][NextPages]_vars /\ WF_vars(NextPages)

\* ------------------------------- SummarizeDiff, TruncateDiff on their own
\* a diff of k one-character lines, the first j of them additions and the
\* others deletions
LinesDiff(k, j) == JoinLines([i \in 1..k |-> IF i <= j THEN <<"+">> ELSE <<"-">>])

Diffs ==
    SeqsUpTo(DiffChars, MaxDiffLen)
        \cup UNION {{LinesDiff(k, j) : j \in {0, 1, k}} : k \in 1..MaxDiffLines}

LineLimits == 0..MaxLineLimit

InitDiff ==
    /\ IdleRun
    /\ \/ fn = "SummarizeDiff" /\ arg \in [diff : Diffs]
       \/ fn = "TruncateDiff" /\ arg \in [diff : Diffs, maxLines : LineLimits]
    /\ loc = [pc |-> "call"]
    /\ ret = <<>>

CallSummarizeDiff ==
    /\ fn = "SummarizeDiff"
    /\ loc.pc = "call"
    /\ ret' = SummarizeDiff(arg.diff)
    /\ loc' = [pc |-> "return"]
    /\ UNCHANGED <<fn, arg>>
    /\ UNCHANGED run

CallTruncateDiff ==
    /\ fn = "TruncateDiff"
    /\ loc.pc = "call"
    /\ ret' = TruncateDiff(arg.diff, arg.maxLines)
    /\ loc' = [pc |-> "return"]
    /\ UNCHANGED <<fn, arg>>
    /\ UNCHANGED run

NextDiff == CallSummarizeDiff \/ CallTruncateDiff

SpecDiff == InitDiff /\ [][NextDiff]_vars

\* ----------------------------------------- prepareCommitsForLLM on its own
\* the files of a commit: named by their position, with a count of added
\* and removed lines and a patch
FileKinds ==
    {[Additions |-> 10, Deletions |-> 0, Patch |-> <<"+">>],
     [Additions |-> 11, Deletions |-> 0, Patch |-> <<"+">>],
     [Additions |-> 5, Deletions |-> 6, Patch |-> <<"-">>],
     [Additions |-> 11, Deletions |-> 0, Patch |-> <<>>]}

FileOf(i, kind) ==
    [Filename |-> <<"f", ToString(i)>>, Status |-> "modified", Additions |-> kind.Additions,
     Deletions |-> kind.Deletions, Patch |-> kind.Patch]

\* commits of a few files of every kind, and commits of many files of one kind
PreparedFileLists ==
    {[i \in 1..Len(kinds) |-> FileOf(i, kinds[i])] : kinds \in SeqsUpTo(FileKinds, MaxKindFiles)}
        \cup UNION {{[i \in 1..k |-> FileOf(i, kind)] : kind \in FileKinds} :
                        k \in 1..MaxCommitFiles}

CommitsToPrepare ==
    {<<[SHA |-> <<"c", "1">>, FilesChanged |-> fs]>> : fs \in PreparedFileLists}
        \cup {<<[SHA |-> <<"c", "1">>, FilesChanged |-> <<FileOf(1, k1)>>],
                [SHA |-> <<"c", "2">>, FilesChanged |-> <<FileOf(1, k2), FileOf(2, k1)>>]>> :
                     k1 \in FileKinds, k2 \in FileKinds}

InitPrepare ==
    /\ IdleRun
    /\ fn = "prepareCommitsForLLM"
    /\ arg \in [commits : CommitsToPrepare]
    /\ loc = [pc |-> "call"]
    /\ ret = <<>>

CallPrepareCommitsForLLM ==
    /\ fn = "prepareCommitsForLLM"
    /\ loc.pc = "call"
    /\ ret' = prepareCommitsForLLM(arg.commits)
    /\ loc' = [pc |-> "return"]
    /\ UNCHANGED <<fn, arg>>
    /\ UNCHANGED run

NextPrepare == CallPrepareCommitsForLLM

SpecPrepare == InitPrepare /\ [][NextPrepare]_vars

\* -------------------- ParseChangelogResponse, GenerateChangelog on their own
\* the texts that are put between fences: JSON texts, with and without
\* white space of their own, and texts that are no JSON
PlainTexts ==
    {EmptyObject, SummaryObject, EmptyArray,
     <<" ">> \o EmptyObject, SummaryObject \o <<"\n">>,
     <<>>, <<"x">>, <<"{">>, <<"\f">> \o EmptyObject,
     <<"j", "s", "o", "n">> \o EmptyObject, Fence, EmptyObject \o Fence}

SpaceTexts == SeqsUpTo(SpaceChars, MaxSpaces)

\* a text between an opening fence and a closing fence, with white space
\* before and after each fence
Fenced(text, open, w) == w[1] \o open \o w[2] \o text \o w[3] \o Fence \o w[4]

FencedInputs == [J : PlainTexts, open : {JsonFence, Fence}, w : [1..4 -> SpaceTexts]]

FencedTexts ==
    {Fenced(t, open, <<<<>>, <<"\n">>, <<"\n">>, <<>>>>) :
        t \in PlainTexts, open \in {JsonFence, Fence}}

UnitRequests ==
    {[Commits |-> <<>>, RepoName |-> <<"o", "/", "r">>, FromRef |-> f, ToRef |-> <<"b">>] :
        f \in {<<"a">>, <<"c">>}}

InitLLM ==
    /\ IdleRun
    /\ \/ fn = "ParseChangelogResponse" /\ arg \in FencedInputs
       \/ /\ fn = "GenerateChangelog"
          /\ arg \in [req : UnitRequests, outcome : LLMOutcomes(PlainTexts \cup FencedTexts)]
    /\ loc = [pc |-> "call"]
    /\ ret = <<>>

\* ParseChangelogResponse is called with the text between fences, and with
\* the text alone
CallParseChangelogResponse ==
    /\ fn = "ParseChangelogResponse"
    /\ loc.pc = "call"
    /\ ret' = [fenced |-> ParseChangelogResponse(Fenced(arg.J, arg.open, arg.w)),
               plain |-> ParseChangelogResponse(arg.J)]
    /\ loc' = [pc |-> "return"]
    /\ UNCHANGED <<fn, arg>>
    /\ UNCHANGED run

CallGenerateChangelog ==
    /\ fn = "GenerateChangelog"
    /\ loc.pc = "call"
    /\ ret' = GenerateChangelog(arg.req, arg.outcome)
    /\ loc' = [pc |-> "return"]
    /\ UNCHANGED <<fn, arg>>
    /\ UNCHANGED run

NextLLM == CallParseChangelogResponse \/ CallGenerateChangelog

SpecLLM == InitLLM /\ [][NextLLM]_vars

\* ------------------------------------------------ FormatMarkdown on its own
HashChars == <<"a", "b", "c", "1", "2", "3", "d", "e", "f", "4">>

EntryOf(hashLen, score, description) ==
    [SHA |-> SubSeq(HashChars, 1, hashLen), Title |-> "t", Description |-> description,
     Author |-> "u", ImportanceScore |-> score]

\* some of the known categories, and two others
SomeCategories == {"Features", "Bug Fixes", "Breaking Changes", "Custom", "Other"}

EntryLists ==
    {<<>>, <<EntryOf(8, 80, <<>>), EntryOf(7, 40, <<"d", "\n", "\n", "e">>)>>}

\* a map of categories: some categories, each with a list of entries
CategoryMaps ==
    UNION {[D -> EntryLists] : D \in {S \in SUBSET SomeCategories : Cardinality(S) <= MaxCategories}}

\* a map with one category whose one entry has a hash of some length
HashMaps ==
    {[category \in {name} |-> <<EntryOf(n, 50, <<>>)>>] :
        name \in {"Features", "Custom"}, n \in 0..MaxHashLen}

\* the scores of the scale, and the minimum scores a configuration is given
Scores == 0..MaxScore
MinScores == {0 - 10, 0, 60, 70}

\* a map with one category whose one entry has some score, or whose three
\* entries have the scores 8.5, 6.0 and 9.0
ScoreMaps ==
    {[category \in {name} |-> <<EntryOf(8, score, <<>>)>>] :
        name \in {"Features", "Custom"}, score \in Scores}
    \cup {[category \in {name} |->
               <<EntryOf(8, 85, <<>>), EntryOf(7, 60, <<>>), EntryOf(9, 90, <<>>)>>] :
             name \in {"Features", "Custom"}}

\* the orders in which a range over a map can visit its keys
KeyOrders(m) ==
    {order \in [1..Cardinality(DOMAIN m) -> DOMAIN m] : Injective(order)}

FormatResponses(maps) ==
    {[Summary |-> sh[1], Highlights |-> sh[2], Categories |-> m] :
        sh \in {<<"", <<>>>>, <<"s1", <<"h1">>>>}, m \in maps}

FormatConfigs(minScores) ==
    {[GoodConfig EXCEPT !.IncludeAuthors = a, !.ShowScores = ~a, !.MinScore = m] :
        a \in BOOLEAN, m \in minScores}

FormatArgs(maps, configs) ==
    UNION {{[response |-> r, from |-> <<"a">>, to |-> <<"b">>, cfg |-> c, order |-> order] :
               c \in configs, order \in KeyOrders(r.Categories)} :
              r \in FormatResponses(maps)}

InitFormat ==
    /\ IdleRun
    /\ \/ /\ fn = "FormatMarkdown"
          /\ arg \in FormatArgs(CategoryMaps \cup HashMaps, FormatConfigs({0, 60}))
                      \cup FormatArgs(ScoreMaps, FormatConfigs(MinScores))
       \/ /\ fn = "FormatMarkdown (earlier copy)"
          /\ arg \in FormatArgs(HashMaps, FormatConfigs({0}))
    /\ loc = [pc |-> "call"]
    /\ ret = <<>>

CallFormatMarkdown ==
    /\ fn = "FormatMarkdown"
    /\ loc.pc = "call"
    /\ ret' = FormatMarkdown(arg.response, arg.from, arg.to, arg.cfg, arg.order)
    /\ loc' = [pc |-> "return"]
    /\ UNCHANGED <<fn, arg>>
    /\ UNCHANGED run

CallFormatMarkdownEarlier ==
    /\ fn = "FormatMarkdown (earlier copy)"
    /\ loc.pc = "call"
    /\ ret' = FormatMarkdownCopy("earlier", arg.response, arg.from, arg.to, arg.cfg, arg.order)
    /\ loc' = [pc |-> "return"]
    /\ UNCHANGED <<fn, arg>>
    /\ UNCHANGED run

NextFormat == CallFormatMarkdown \/ CallFormatMarkdownEarlier

SpecFormat == InitFormat /\ [][NextFormat]_vars

\* ------------------------------------------------ FormatMarkdown run twice
\* maps over one known category and two others
TwiceMaps ==
    UNION {[D -> EntryLists] : D \in SUBSET {"Features", "Custom", "Other"}}

InitTwice ==
    /\ IdleRun
    /\ fn = "FormatMarkdown"
    /\ arg \in FormatArgs(TwiceMaps, FormatConfigs({0}))
    /\ loc = [pc |-> "call"]
    /\ ret = <<>>

\* a second run on the same response and configuration; the range over the
\* map visits the keys in an order of its own
CallFormatMarkdownAgain ==
    /\ fn = "FormatMarkdown"
    /\ loc.pc = "return"
    /\ \E order \in KeyOrders(arg.response.Categories) :
          ret' = FormatMarkdown(arg.response, arg.from, arg.to, arg.cfg, order)
    /\ loc' = [pc |-> "again", first |-> ret]
    /\ UNCHANGED <<fn, arg>>
    /\ UNCHANGED run

NextTwice == CallFormatMarkdown \/ CallFormatMarkdownAgain

SpecTwice == InitTwice /\ [][NextTwice]_vars

\* ---------------------------------------- Generate under a minimum score
\* Generate is entered with the refs a..b and some minimum score
InitGenerate ==
    /\ cfg \in {[GoodConfig EXCEPT !.MinScore = m] : m \in {0, 70}}
    /\ pc = "Generate"
    /\ mode = "ref"
    /\ from = <<"a">> /\ to = <<"b">>
    /\ err = ""
    /\ calls = <<>>
    /\ fromDate = ZeroTime /\ toDate = ZeroTime
    /\ tags = NoListing /\ releases = NoListing
    /\ refs = <<>>
    /\ hostRange = NoRange
    /\ rangeResult = NoResult
    /\ timelineReleases = <<>>
    /\ commits = <<>>
    /\ requests = <<>>
    /\ response = NoResponse
    /\ releaseChangelogs = <<>>
    /\ markdown = NoMarkdown
    /\ stdout = <<>>
    /\ files = <<>>
    /\ NoCall

NextGenerate == FetchCommits(RichRanges) \/ SendChangelogRequest \/ WriteOutput

SpecGenerate == InitGenerate /\ [][NextGenerate]_vars

\* ------------------------------------------ BuildChangelogPrompt on its own
\* commits with a hash of some length, with and without files, stats and a
\* diff summary
PromptCommits ==
    {[SHA |-> SubSeq(HashChars, 1, n), Message |-> "m", Author |-> "u", Date |-> 1,
      FilesChanged |-> IF full THEN <<"main.go">> ELSE <<>>,
      Stats |-> IF full THEN "+5/-1" ELSE "",
      DiffSummary |-> IF full THEN "d" ELSE ""] :
        n \in 0..MaxHashLen, full \in BOOLEAN}

PromptRequests ==
    {[Commits |-> cs, RepoName |-> <<"o", "/", "r">>, FromRef |-> <<"a">>, ToRef |-> <<"b">>] :
        cs \in SeqsUpTo(PromptCommits, MaxPromptCommits)}

InitPrompt ==
    /\ IdleRun
    /\ fn = "BuildChangelogPrompt"
    /\ arg \in [req : PromptRequests]
    /\ loc = [pc |-> "call"]
    /\ ret = <<>>

CallBuildChangelogPrompt ==
    /\ fn = "BuildChangelogPrompt"
    /\ loc.pc = "call"
    /\ ret' = BuildChangelogPrompt(arg.req)
    /\ loc' = [pc |-> "return"]
    /\ UNCHANGED <<fn, arg>>
    /\ UNCHANGED run

NextPrompt == CallBuildChangelogPrompt

SpecPrompt == InitPrompt /\ [][NextPrompt]_vars

\* ---------------------------------------------------------- the claims
CompareCalls == SelectSeq(calls, LAMBDA c : c.op = "CompareCommits")
DetailCalls == SelectSeq(calls, LAMBDA c : c.op = "GetCommit")
ModelCalls == SelectSeq(calls, LAMBDA c : c.api = "openai")

NothingWritten == stdout = <<>> /\ files = <<>>

\* C1: in ref mode, when the host's comparison of from..to holds no commit,
\* the run has ended with the error "no commits found", no request was sent
\* to the language model, and nothing was printed or written.
C1_EmptyRangeIsAnError ==
    (mode = "ref" /\ hostRange.comparison.ok /\ hostRange.comparison.Commits = <<>>)
        => /\ pc = "done"
           /\ err = "no commits found"
           /\ requests = <<>>
           /\ ModelCalls = <<>>
           /\ markdown = NoMarkdown
           /\ NothingWritten

C1_Witness ==
    /\ mode = "ref"
    /\ hostRange.comparison.ok /\ hostRange.comparison.Commits = <<>>
    /\ CompareCalls # <<>>
    /\ err = "no commits found"

\* C2: a run that ended with a configuration error has made no call to the
\* repository host and none to the language model.
C2_ConfigErrorsBeforeAnyCall ==
    err \in ConfigErrors => (pc = "done" /\ calls = <<>>)

C2_Witness ==
    /\ pc = "done"
    /\ err = "repository name is required"
    /\ cfg.GitHubToken # "" /\ cfg.OpenAIAPIKey # "" /\ cfg.RepoOwner # ""

\* the reference points were computed from the two listings
Discovered == pc # "GenerateTimeline" /\ tags.ok /\ releases.ok

RefsNamed(n) == {i \in 1..Len(refs) : refs[i].Name = n}
TagNamed(n) == \E i \in 1..Len(tags.items) : tags.items[i].Name = n
ReleaseNamed(n) == \E i \in 1..Len(releases.items) : releases.items[i].TagName = n
TagInWindow(n) ==
    \E i \in 1..Len(tags.items) :
        /\ tags.items[i].Name = n
        /\ fromDate <= tags.items[i].CommitDate /\ tags.items[i].CommitDate <= toDate
PublishedInWindow(n) ==
    \E i \in 1..Len(releases.items) :
        /\ releases.items[i].TagName = n
        /\ ~releases.items[i].Draft
        /\ fromDate <= releases.items[i].PublishedAt
        /\ releases.items[i].PublishedAt <= toDate

\* C3 as stated: when a tag and a release share a name, at most one
\* reference point has that name, and if there is one its kind is "release".
C3_SharedNameIsRelease ==
    Discovered =>
        \A n \in Names :
            (TagNamed(n) /\ ReleaseNamed(n)) =>
                /\ Cardinality(RefsNamed(n)) <= 1
                /\ \A i \in RefsNamed(n) : refs[i].Type = "release"

\* C3 amended: when a tag and a release share a name, at most one reference
\* point has that name; there is exactly one of kind "release" when a
\* non-draft release of that name is published inside the window, and
\* otherwise a point of that name has kind "tag".
C3_SharedNameOnceReleaseIfPublished ==
    Discovered =>
        \A n \in Names :
            (TagNamed(n) /\ ReleaseNamed(n)) =>
                /\ Cardinality(RefsNamed(n)) <= 1
                /\ PublishedInWindow(n) => Cardinality(RefsNamed(n)) = 1
                /\ \A i \in RefsNamed(n) :
                      refs[i].Type = (IF PublishedInWindow(n) THEN "release" ELSE "tag")

C3_Witness ==
    /\ Discovered
    /\ \E n \in Names :
          /\ TagInWindow(n) /\ PublishedInWindow(n)
          /\ Cardinality(RefsNamed(n)) = 1
          /\ \A i \in RefsNamed(n) : refs[i].Type = "release"

\* C4: every reference point returned has its date inside the window, both
\* ends included; the date is the commit date of a tag of that name for a
\* point of kind "tag" and the published date of a release of that name for
\* a point of kind "release".
C4_DatesInsideWindow ==
    Discovered =>
        \A i \in 1..Len(refs) :
            /\ fromDate <= refs[i].Date /\ refs[i].Date <= toDate
            /\ refs[i].Type \in {"tag", "release"}
            /\ refs[i].Type = "tag" =>
                  \E k \in 1..Len(tags.items) :
                      /\ tags.items[k].Name = refs[i].Name
                      /\ tags.items[k].CommitDate = refs[i].Date
            /\ refs[i].Type = "release" =>
                  \E k \in 1..Len(releases.items) :
                      /\ releases.items[k].TagName = refs[i].Name
                      /\ releases.items[k].PublishedAt = refs[i].Date

C4_Witness ==
    /\ Discovered
    /\ fromDate < toDate
    /\ \E i, j \in 1..Len(refs) : refs[i].Date = fromDate /\ refs[j].Date = toDate
    /\ \E k \in 1..Len(tags.items) :
          /\ tags.items[k].CommitDate < fromDate \/ tags.items[k].CommitDate > toDate
          /\ \A i \in 1..Len(refs) :
                refs[i].Name = tags.items[k].Name => refs[i].Type = "release"

\* C5: a draft release contributes nothing: a point of kind "release" has the
\* name, published date and pre-release flag of a release that is not a
\* draft, and a tag inside the window whose name no published release inside
\* the window bears keeps its own entry, whatever drafts bear that name.
C5_DraftsNeverContribute ==
    Discovered =>
        /\ \A i \in 1..Len(refs) :
              refs[i].Type = "release" =>
                  \E k \in 1..Len(releases.items) :
                      /\ ~releases.items[k].Draft
                      /\ releases.items[k].TagName = refs[i].Name
                      /\ releases.items[k].PublishedAt = refs[i].Date
                      /\ releases.items[k].Prerelease = refs[i].IsPrerelease
        /\ \A k \in 1..Len(tags.items) :
              (TagInWindow(tags.items[k].Name) /\ ~PublishedInWindow(tags.items[k].Name)) =>
                  \E i \in 1..Len(refs) :
                      refs[i] = [Name |-> tags.items[k].Name,
                                 Date |-> tags.items[k].CommitDate,
                                 Type |-> "tag", IsPrerelease |-> FALSE]

C5_Witness ==
    /\ Discovered
    /\ \E k \in 1..Len(releases.items) :
          /\ releases.items[k].Draft /\ releases.items[k].Prerelease
          /\ fromDate <= releases.items[k].PublishedAt
          /\ releases.items[k].PublishedAt <= toDate
          /\ TagInWindow(releases.items[k].TagName)
          /\ \E i \in 1..Len(refs) :
                refs[i].Name = releases.items[k].TagName /\ refs[i].Type = "tag"

\* C6: the reference points returned are in ascending order of date: no
\* point is dated after its successor.
C6_SortedByDate ==
    Discovered => \A i \in 1..(Len(refs) - 1) : ~(refs[i].Date > refs[i + 1].Date)

C6_Witness ==
    /\ Discovered
    /\ Len(refs) >= 3
    /\ refs[1].Date = refs[2].Date /\ refs[2].Date < refs[3].Date
    /\ refs[1].Name = <<"b">> /\ refs[2].Name = <<"a">>

\* GetTimelineReleases returned its segments without an error
TimelineResolved ==
    /\ mode = "timeline" /\ refs # <<>>
    /\ pc \in {"releases", "done"}
    /\ err # "get commits"

\* C7: when GetTimelineReleases succeeds on N >= 1 reference points it
\* returns N-1 segments, segment i runs from point i to point i+1, and each
\* segment ends (ref and date) where the next one starts.
C7_SegmentsAreConsecutivePairs ==
    TimelineResolved =>
        /\ Len(timelineReleases) = Len(refs) - 1
        /\ \A i \in 1..Len(timelineReleases) :
              /\ timelineReleases[i].FromRef = refs[i].Name
              /\ timelineReleases[i].FromDate = refs[i].Date
              /\ timelineReleases[i].ToRef = refs[i + 1].Name
              /\ timelineReleases[i].ToDate = refs[i + 1].Date
              /\ timelineReleases[i].FromDate <= timelineReleases[i].ToDate
        /\ \A i \in 1..(Len(timelineReleases) - 1) :
              /\ timelineReleases[i].ToRef = timelineReleases[i + 1].FromRef
              /\ timelineReleases[i].ToDate = timelineReleases[i + 1].FromDate

C7_Witness ==
    /\ TimelineResolved
    /\ Len(refs) = 3 /\ Len(timelineReleases) = 2
    /\ timelineReleases[1].ToRef = timelineReleases[2].FromRef

\* C8: when no tag and no release that is not a draft is dated inside the
\* window, the run has ended with the error "no tags or releases found",
\* without a commit-range fetch, without a request to the language model and
\* without markdown.
C8_EmptyTimelineIsAnError ==
    (Discovered /\ mode = "timeline"
        /\ \A n \in Names : ~TagInWindow(n) /\ ~PublishedInWindow(n))
        => /\ pc = "done"
           /\ err = "no tags or releases found"
           /\ CompareCalls = <<>>
           /\ ModelCalls = <<>>
           /\ requests = <<>>
           /\ timelineReleases = <<>> /\ releaseChangelogs = <<>>
           /\ markdown = NoMarkdown
           /\ NothingWritten

C8_Witness ==
    /\ Discovered /\ mode = "timeline"
    /\ err = "no tags or releases found"
    /\ tags.items # <<>> /\ releases.items # <<>>
    /\ ~releases.items[1].Draft

\* the consecutive pairs of names of the first k+1 reference points
Pairs(k) == [i \in 1..k |-> <<refs[i].Name, refs[i + 1].Name>>]
ComparedPairs == [i \in 1..Len(CompareCalls) |-> <<CompareCalls[i].a, CompareCalls[i].b>>]

\* C9: a successful GetTimelineReleases has fetched exactly the N-1
\* consecutive pairs, in order; when the fetch of a pair fails the run has
\* ended with no segment at all, and only the pairs up to the failing one
\* were fetched.
C9_OneFetchPerPairNoPartialResult ==
    mode = "timeline" =>
        /\ TimelineResolved => ComparedPairs = Pairs(Len(refs) - 1)
        /\ pc = "segments" => ComparedPairs = Pairs(Len(timelineReleases))
        /\ err = "get commits" =>
              /\ pc = "done"
              /\ timelineReleases = <<>>
              /\ rangeResult.err # ""
              /\ Len(CompareCalls) <= Len(refs) - 1
              /\ ComparedPairs = Pairs(Len(CompareCalls))
              /\ ModelCalls = <<>>

C9_Witness ==
    /\ mode = "timeline"
    /\ err = "get commits"
    /\ Len(refs) = 3 /\ Len(CompareCalls) = 2
    /\ timelineReleases = <<>>

Listing == fn \in {"ListAllTags", "ListAllReleases"}

\* whether a page makes the listing fail: the host's error, or a failed
\* commit lookup for one of its tags
PageFails(p) ==
    \/ ~arg[p].ok
    \/ fn = "ListAllTags" /\ \E i \in 1..Len(arg[p].items) : ~arg[p].items[i].found

\* the names of the items of the pages asked, from the k-th page asked on
RECURSIVE NamesOfPages(_, _)
NamesOfPages(asked, k) ==
    IF k > Len(asked) THEN <<>>
    ELSE LET items == arg[asked[k]].items
         IN  [i \in 1..Len(items) |->
                 IF fn = "ListAllTags" THEN items[i].Name ELSE items[i].TagName]
                 \o NamesOfPages(asked, k + 1)

NamesOfItems(items) ==
    [i \in 1..Len(items) |-> IF fn = "ListAllTags" THEN items[i].Name ELSE items[i].TagName]

\* whether following the next-page values from page p reaches a last page
\* (or a failing one) within n requests
RECURSIVE HostEnds(_, _)
HostEnds(p, n) ==
    /\ n > 0
    /\ \/ PageFails(p)
       \/ arg[p].NextPage = 0
       \/ HostEnds(arg[p].NextPage, n - 1)

\* C11: ListAllTags and ListAllReleases ask for one page per turn, the first
\* with page 0 and each later one with the next-page value of the page before;
\* a successful return follows a page whose next-page value is 0 and holds
\* the items of every page asked, in the order asked; a failing page (or a
\* failing commit lookup) gives an error and no list; and when the host's
\* next-page values lead to 0 the listing returns.
C11_PagesFollowedAndConcatenated ==
    /\ [](Listing =>
            /\ \A k \in 1..Len(loc.asked) :
                  loc.asked[k] = IF k = 1 THEN 0 ELSE arg[loc.asked[k - 1]].NextPage
            /\ \A k \in 1..(Len(loc.asked) - 1) :
                  ~PageFails(loc.asked[k]) /\ arg[loc.asked[k]].NextPage # 0
            /\ loc.pc = "return" =>
                  LET last == loc.asked[Len(loc.asked)]
                  IN  IF PageFails(last)
                      THEN ret = [ok |-> FALSE, items |-> <<>>]
                      ELSE /\ arg[last].NextPage = 0
                           /\ ret.ok
                           /\ NamesOfItems(ret.items) = NamesOfPages(loc.asked, 1))
    /\ (Listing /\ HostEnds(0, MaxPage + 1)) ~> (loc.pc = "return")

C11_Witness ==
    /\ Listing
    /\ loc.pc = "return"
    /\ Len(loc.asked) = 3
    /\ ret.ok
    /\ NamesOfItems(ret.items) = <<<<"b">>, <<"a">>>>

Returned(f) == fn = f /\ loc.pc = "return"

\* the file header lines of a patch: "--- a/..." and "+++ b/..."
IsFileHeader(line) ==
    HasPrefix(line, <<"+", "+", "+", " ">>) \/ HasPrefix(line, <<"-", "-", "-", " ">>)

\* the lines of a diff that start with the sign and are no file header
SignedLines(diff, sign) ==
    LET lines == SplitLines(diff)
    IN  {i \in 1..Len(lines) : HasPrefix(lines[i], <<sign>>) /\ ~IsFileHeader(lines[i])}

\* C12: for a non-empty patch with A added and D removed lines, every line
\* that starts with + or - counted except the file header lines,
\* SummarizeDiff reports "+A/-D lines"; for the empty patch it returns the
\* empty string.
C12_CountsAddedAndRemovedLines ==
    Returned("SummarizeDiff") =>
        IF arg.diff = <<>> THEN ret = <<>>
        ELSE /\ Len(ret) >= 5
             /\ SubSeq(ret, 1, 5) =
                   <<"+", ToString(Cardinality(SignedLines(arg.diff, "+"))),
                     "/-", ToString(Cardinality(SignedLines(arg.diff, "-"))),
                     " lines. Sample:\n">>

\* the number of newlines of a text
RECURSIVE Newlines(_)
Newlines(s) ==
    IF s = <<>> THEN 0 ELSE (IF Head(s) = "\n" THEN 1 ELSE 0) + Newlines(Tail(s))

\* whether out is the diff cut to m lines: the diff itself when it has at
\* most m lines, and otherwise the characters of the diff before the newline
\* that ends its m-th line, followed by the note of the lines cut
IsTruncation(out, diff, m) ==
    LET total == Newlines(diff) + 1
    IN  IF total <= m THEN out = diff
        ELSE /\ Len(out) >= 3
             /\ SubSeq(out, Len(out) - 2, Len(out)) =
                   <<"\n... (", ToString(total - m), " more lines truncated)">>
             /\ LET kept == SubSeq(out, 1, Len(out) - 3)
                IN  /\ HasPrefix(diff, kept)
                    /\ IF m = 0 THEN kept = <<>>
                       ELSE /\ Newlines(kept) = m - 1
                            /\ diff[Len(kept) + 1] = "\n"

\* C15: TruncateDiff returns the diff unchanged when it has at most m lines
\* and otherwise its first m lines followed by the note "(n more lines
\* truncated)", n the number of lines minus m; the sample of SummarizeDiff
\* is the diff cut to 10 lines.
C15_TruncatesToLineLimit ==
    /\ Returned("TruncateDiff") => IsTruncation(ret, arg.diff, arg.maxLines)
    /\ (Returned("SummarizeDiff") /\ arg.diff # <<>>) =>
          /\ Len(ret) >= 5
          /\ IsTruncation(SubSeq(ret, 6, Len(ret)), arg.diff, 10)

C15_Witness ==
    /\ Returned("SummarizeDiff")
    /\ Newlines(arg.diff) = 11
    /\ ret[Len(ret) - 1] = "2"

\* C13: prepareCommitsForLLM gives one record per commit whose file list has
\* the file names in order: all of them when the commit has at most 20
\* files, and otherwise the first 20 followed by one entry that tells how
\* many more there are; the list has at most 21 entries.
C13_FileNamesCappedAtTwenty ==
    Returned("prepareCommitsForLLM") =>
        /\ Len(ret) = Len(arg.commits)
        /\ \A c \in 1..Len(ret) :
              LET changed == arg.commits[c].FilesChanged
                  k == Len(changed)
                  listed == ret[c].FilesChanged
              IN  /\ Len(listed) <= 21
                  /\ Len(listed) = IF k > 20 THEN 21 ELSE k
                  /\ \A i \in 1..k : i <= 20 => listed[i] = changed[i].Filename
                  /\ k > 20 => listed[21] = <<"... and ", ToString(k - 20), " more files">>

C13_Witness ==
    /\ Returned("prepareCommitsForLLM")
    /\ Len(arg.commits[1].FilesChanged) = 22
    /\ Len(ret[1].FilesChanged) = 21
    /\ ret[1].FilesChanged[21] = <<"... and ", "2", " more files">>

\* the files of a commit that are summarized: more than 10 changed lines
\* and a patch
Summarized(changed) ==
    {i \in 1..Len(changed) :
        changed[i].Additions + changed[i].Deletions > 10 /\ changed[i].Patch # <<>>}

\* the k-th smallest member of a set of numbers
Kth(S, k) == CHOOSE i \in S : Cardinality({j \in S : j < i}) = k - 1

JsonValues == {EmptyObject, SummaryObject, EmptyArray}
IsJsonText(text) == TrimRight(TrimLeft(text, JsonSpaceChars), JsonSpaceChars) \in JsonValues

\* C16: for a JSON text J, ParseChangelogResponse gives for J between a
\* leading json fence or bare fence and a trailing fence, with any white
\* space around the fences, what it gives for J alone: the same response,
\* or the same error.
C16_FencedParsesAsPlain ==
    (Returned("ParseChangelogResponse") /\ IsJsonText(arg.J)) => ret.fenced = ret.plain

C16_Witness ==
    /\ Returned("ParseChangelogResponse")
    /\ arg.J = SummaryObject \o <<"\n">>
    /\ arg.open = JsonFence
    /\ arg.w = <<<<"\f">>, <<"\n">>, <<>>, <<" ">>>>
    /\ ret.fenced.err = ""
    /\ ret.fenced.response.Summary = "s1"

\* whether a text is JSON once the white space around it, a leading fence
\* and a trailing fence (each if present) are taken off
JsonInsideFences(text) ==
    \E open \in {<<>>, JsonFence, Fence}, close \in {<<>>, Fence}, value \in JsonValues :
        \E wa, wb \in SeqsUpTo(SpaceChars, 2) :
            TrimSpace(text) = open \o wa \o value \o wb \o close

KnownNames ==
    <<"Breaking Changes", "Features", "Improvements", "Bug Fixes", "Documentation",
      "Internal">>
IsKnown(category) == \E k \in 1..Len(KnownNames) : KnownNames[k] = category

\* the pieces of a text that are category headers, with their glyph and name
IsHeader(piece) == Len(piece) = 5 /\ piece[1] = "## " /\ piece[3] = " " /\ piece[5] = "\n\n"
IsEntry(piece) == Len(piece) = 7 /\ piece[1] = "- **"
NonEmpty(category) ==
    category \in DOMAIN arg.response.Categories /\ Len(arg.response.Categories[category]) > 0

\* C18: FormatMarkdown writes the headers of the known categories in the
\* order Breaking Changes, Features, Improvements, Bug Fixes, Documentation,
\* Internal, whatever the order of the map of the response, and writes a
\* header for none that the response lacks or holds with no entry.
C18_KnownCategoriesInFixedOrder ==
    Returned("FormatMarkdown") =>
        LET headers == SelectSeq(ret.text, LAMBDA p : IsHeader(p) /\ IsKnown(p[4]))
            expected == SelectSeq(KnownNames, NonEmpty)
        IN  [i \in 1..Len(headers) |-> headers[i][4]] = expected

C18_Witness ==
    /\ Returned("FormatMarkdown")
    /\ arg.order = <<"Bug Fixes", "Features", "Breaking Changes">>
    /\ Len(arg.response.Categories["Features"]) = 0
    /\ SelectSeq(ret.text, IsHeader) =
          <<<<"## ", "boom", " ", "Breaking Changes", "\n\n">>,
            <<"## ", "bug", " ", "Bug Fixes", "\n\n">>>>

\* the number of entries of the known categories that are written
RECURSIVE KnownEntriesWritten(_)
KnownEntriesWritten(k) ==
    IF k > Len(KnownNames) THEN 0
    ELSE (IF NonEmpty(KnownNames[k])
          THEN LET entries == arg.response.Categories[KnownNames[k]]
               IN  Cardinality({i \in 1..Len(entries) :
                       ~(arg.cfg.MinScore > 0 /\ entries[i].ImportanceScore < arg.cfg.MinScore)})
          ELSE 0) + KnownEntriesWritten(k + 1)

\* C19: every category of the response that is not one of the six known
\* ones and has entries gets one header, with the bullet glyph, after the
\* headers and the entries of all the known categories; no known category
\* gets a header with the bullet glyph.
C19_OtherCategoriesOnceAtTheEnd ==
    Returned("FormatMarkdown") =>
        LET text == ret.text
            others == {i \in 1..Len(text) : IsHeader(text[i]) /\ ~IsKnown(text[i][4])}
            known == {i \in 1..Len(text) : IsHeader(text[i]) /\ IsKnown(text[i][4])}
        IN  /\ \A category \in DOMAIN arg.response.Categories :
                  (~IsKnown(category) /\ NonEmpty(category)) =>
                      Cardinality({i \in others : text[i][4] = category}) = 1
            /\ \A i \in others :
                  /\ text[i][2] = "bullet"
                  /\ NonEmpty(text[i][4])
                  /\ \A j \in known : j < i
                  /\ Cardinality({j \in 1..i : IsEntry(text[j])}) >= KnownEntriesWritten(1)
            /\ \A j \in known : text[j][2] # "bullet"

C19_Witness ==
    /\ Returned("FormatMarkdown")
    /\ arg.order = <<"Other", "Features", "Custom">>
    /\ NonEmpty("Other") /\ NonEmpty("Features") /\ NonEmpty("Custom")
    /\ SelectSeq(ret.text, IsHeader) =
          <<<<"## ", "rocket", " ", "Features", "\n\n">>,
            <<"## ", "bullet", " ", "Other", "\n\n">>,
            <<"## ", "bullet", " ", "Custom", "\n\n">>>>

\* C20: FormatMarkdown completes without a run-time failure for an entry
\* hash of any length, the empty one and those of 1 to 6 characters too; the
\* text shown for the link of an entry is the first 7 characters of its hash
\* when the hash has more than 7 and the whole hash otherwise, and the link
\* holds the whole hash.
C20_ShortHashNeverFails ==
    (Returned("FormatMarkdown") \/ Returned("FormatMarkdown (earlier copy)")) =>
        /\ ~ret.panic
        /\ \A i \in 1..Len(ret.text) :
              IsEntry(ret.text[i]) =>
                  \E entry \in EntriesReached(arg.response) :
                      /\ ret.text[i][6][6] = entry.SHA
                      /\ ret.text[i][4] =
                            IF Len(entry.SHA) > 7 THEN SubSeq(entry.SHA, 1, 7) ELSE entry.SHA

\* the piece that shows the score of an entry
IsBadge(piece) == Len(piece) = 7 /\ piece[1] = " " /\ piece[3] = " **["

\* the badge of a score on the scale: 9 and more, 7 to 9, 5 to 7, 3 to 5, less
BadgeOf(score) ==
    CASE score >= 90 -> "red"
      [] score >= 70 /\ score < 90 -> "orange"
      [] score >= 50 /\ score < 70 -> "yellow"
      [] score >= 30 /\ score < 50 -> "green"
      [] score < 30 -> "white"

\* C21: with ShowScores every entry that FormatMarkdown writes is followed
\* by one badge, red for a score of 9 or more, orange from 7, yellow from 5,
\* green from 3 and white below 3; without ShowScores the text holds no badge
\* and no score.
C21_OneBadgeByScore ==
    Returned("FormatMarkdown") =>
        LET text == ret.text
        IN  IF arg.cfg.ShowScores
            THEN /\ \A i \in 1..Len(text) :
                       IsEntry(text[i]) =>
                           /\ i < Len(text) /\ IsBadge(text[i + 1])
                           /\ \E entry \in EntriesReached(arg.response) :
                                  /\ entry.SHA = text[i][6][6]
                                  /\ text[i + 1][2] = BadgeOf(entry.ImportanceScore)
                 /\ \A i \in 1..Len(text) :
                       IsBadge(text[i]) => i > 1 /\ IsEntry(text[i - 1])
            ELSE \A i \in 1..Len(text) : ~IsBadge(text[i])

C21_Witness ==
    /\ Returned("FormatMarkdown")
    /\ arg.cfg.ShowScores
    /\ \E i \in 1..Len(ret.text) :
          IsBadge(ret.text[i]) /\ ret.text[i][2] = "orange" /\ ret.text[i][4] = "7"
             /\ ret.text[i][6] = "0"

\* the entries of the response, each by its category and its place there
EntryPlaces ==
    UNION {{<<category, i>> : i \in 1..Len(arg.response.Categories[category])} :
              category \in DOMAIN arg.response.Categories}
EntryAt(place) == arg.response.Categories[place[1]][place[2]]

\* C22: with a minimum score m above 0 FormatMarkdown writes an entry if
\* and only if its score is m or more, in the known categories and in the
\* others; with m at 0 or below it writes every entry.
C22_EntriesAtOrAboveMinScore ==
    Returned("FormatMarkdown") =>
        LET m == arg.cfg.MinScore
            written(sha) ==
                {i \in 1..Len(ret.text) : IsEntry(ret.text[i]) /\ ret.text[i][6][6] = sha}
            kept(sha) ==
                {place \in EntryPlaces :
                    /\ EntryAt(place).SHA = sha
                    /\ (m > 0 => EntryAt(place).ImportanceScore >= m)}
        IN  \A place \in EntryPlaces :
                Cardinality(written(EntryAt(place).SHA)) = Cardinality(kept(EntryAt(place).SHA))

C22_Witness ==
    /\ Returned("FormatMarkdown")
    /\ arg.cfg.MinScore = 70
    /\ DOMAIN arg.response.Categories = {"Custom"}
    /\ LET entries == arg.response.Categories["Custom"]
           written == SelectSeq(ret.text, IsEntry)
       IN  /\ [i \in 1..Len(entries) |-> entries[i].ImportanceScore] = <<85, 60, 90>>
           /\ [i \in 1..Len(written) |-> written[i][6][6]] = <<entries[1].SHA, entries[3].SHA>>

\* C23: a category with entries gets its header even when a minimum score
\* above 0 leaves none of its entries: the header is then followed by no
\* entry.
C23_HeaderBeforeScoreFilter ==
    Returned("FormatMarkdown") =>
        \A category \in DOMAIN arg.response.Categories :
            NonEmpty(category) =>
                LET entries == arg.response.Categories[category]
                    headers == {i \in 1..Len(ret.text) :
                                   IsHeader(ret.text[i]) /\ ret.text[i][4] = category}
                IN  /\ Cardinality(headers) = 1
                    /\ (/\ arg.cfg.MinScore > 0
                         /\ \A k \in 1..Len(entries) :
                               entries[k].ImportanceScore < arg.cfg.MinScore)
                          => \A i \in headers : i = Len(ret.text) \/ IsHeader(ret.text[i + 1])

C23_Witness ==
    /\ Returned("FormatMarkdown")
    /\ arg.cfg.MinScore = 60
    /\ DOMAIN arg.response.Categories = {"Features"}
    /\ Len(arg.response.Categories["Features"]) = 1
    /\ arg.response.Categories["Features"][1].ImportanceScore = 59
    /\ ret.text[Len(ret.text)] = <<"## ", "rocket", " ", "Features", "\n\n">>
\* C24: two runs of FormatMarkdown on the same response and the same
\* configuration return the same markdown, also when the response holds two
\* or more categories outside CategoryOrder.
C24_TwoRunsSameMarkdown ==
    (fn = "FormatMarkdown" /\ loc.pc = "again") => ret = loc.first

\* a command writes its changelog: the step of writeOutput that succeeds
WritesChangelog == pc \in {"writeOutput", "releases"} /\ pc' = "done" /\ err' = ""

\* the markdown goes to standard output, or to the file of the path
EmittedTo(path) ==
    IF path = <<"-">> \/ path = <<>>
    THEN stdout' = Append(stdout, markdown') /\ files' = files
    ELSE /\ stdout' = stdout
         /\ DOMAIN files' = DOMAIN files \cup {path}
         /\ files'[path] = markdown'
         /\ \A other \in DOMAIN files \ {path} : files'[other] = files[other]

\* C25 as stated: in ref mode and in timeline mode the markdown of a
\* successful generation goes to standard output, and to no file, when the
\* configured output path is "-" or empty, and to the file of the configured
\* output path otherwise.
C25_OutputWhereConfigured ==
    [][WritesChangelog => EmittedTo(cfg.OutputPath)]_vars

\* C25 amended: that holds in ref mode; in timeline mode the markdown goes
\* to standard output only when the configured output path is "-", to a file
\* named after the repository and the two days when the path is empty or
\* CHANGELOG.md, and to the file of the configured path otherwise.
C25_OutputWhereConfiguredOrDerived ==
    [][WritesChangelog =>
          IF mode = "timeline" /\ cfg.OutputPath \in {<<>>, <<"CHANGELOG.md">>}
          THEN EmittedTo(<<cfg.RepoName, "-", ToString(fromDate), "-", ToString(toDate),
                           "-changelog.md">>)
          ELSE EmittedTo(cfg.OutputPath)]_vars

C25_Witness ==
    /\ mode = "timeline" /\ pc = "done" /\ err = ""
    /\ stdout = <<>>
    /\ DOMAIN files = {<<"r", "-", ToString(fromDate), "-", ToString(toDate), "-changelog.md">>}
    /\ \A path \in DOMAIN files : files[path] = markdown

\* C26: with a minimum score above 0 the request sent to the language model
\* carries fewer commits than the range holds, which is what it carries with
\* the minimum score 0.
C26_MinScoreFiltersRequest ==
    (cfg.MinScore > 0 /\ Len(requests) > 0) =>
        Len(requests[1].Commits) < Len(commits)

\* GenerateTimeline returned a timeline: its markdown exists
TimelineReturned == mode = "timeline" /\ markdown # NoMarkdown

\* a release changelog is that of a segment
OfSegment(changelog, release) ==
    /\ changelog.FromRef = release.FromRef /\ changelog.ToRef = release.ToRef
    /\ changelog.FromDate = release.FromDate /\ changelog.ToDate = release.ToDate

\* C27: a timeline that GenerateTimeline returns holds one release
\* changelog per segment of GetTimelineReleases, in the order of the
\* segments and with the refs and dates of each, and each, also that of a
\* segment without commits, comes from one request to the language model;
\* a request that fails ends GenerateTimeline with an error, with no
\* timeline, without the changelogs of the earlier segments and with no
\* request for the later ones.
C27_OneChangelogPerSegment ==
    /\ [](TimelineReturned =>
            /\ Len(releaseChangelogs) = Len(timelineReleases)
            /\ Len(requests) = Len(timelineReleases)
            /\ \A i \in 1..Len(timelineReleases) :
                  /\ OfSegment(releaseChangelogs[i], timelineReleases[i])
                  /\ requests[i].FromRef = timelineReleases[i].FromRef
                  /\ requests[i].ToRef = timelineReleases[i].ToRef
                  /\ Len(requests[i].Commits) = Len(timelineReleases[i].Commits))
    /\ [][(mode = "timeline" /\ requests' # requests) =>
            /\ Len(requests) = Len(releaseChangelogs)
            /\ Len(requests') = Len(requests) + 1
            /\ IF err' = ""
               THEN /\ Len(releaseChangelogs') = Len(releaseChangelogs) + 1
                    /\ SubSeq(releaseChangelogs', 1, Len(releaseChangelogs)) = releaseChangelogs
               ELSE releaseChangelogs' = <<>> /\ pc' = "done" /\ markdown' = NoMarkdown]_vars
    /\ []((mode = "timeline" /\ pc = "done" /\ releaseChangelogs = <<>> /\ requests # <<>>) =>
            /\ err # "" /\ markdown = NoMarkdown /\ stdout = <<>> /\ files = <<>>
            /\ Len(requests) <= Len(timelineReleases))

C27_Witness ==
    /\ TimelineReturned
    /\ Len(releaseChangelogs) = 2 /\ Len(requests) = 2
    /\ timelineReleases[1].Commits = <<>> /\ timelineReleases[2].Commits # <<>>

\* the calls made so far to one interface, or of one operation
CallsTo(api) == {i \in 1..Len(calls) : calls[i].api = api}
CallsOf(op) == {i \in 1..Len(calls) : calls[i].op = op}

\* C28: in timeline mode every call to the repository host comes before the
\* first request to the language model, which is sent only when the tags and
\* the releases have been listed and the commits of each of the N-1 pairs
\* fetched, all without failure; a host call that fails ends the run without
\* any request to the language model.
C28_HostCallsBeforeModelCalls ==
    mode = "timeline" =>
        /\ \A i \in CallsTo("openai"), j \in CallsTo("github") : j < i
        /\ CallsTo("openai") # {} =>
              /\ tags.ok /\ releases.ok
              /\ Cardinality(CallsOf("ListTags")) = 1
              /\ Cardinality(CallsOf("ListReleases")) = 1
              /\ Cardinality(CallsOf("CompareCommits")) = Len(refs) - 1
              /\ Len(timelineReleases) = Len(refs) - 1
              /\ rangeResult.err = ""
        /\ (pc = "done" /\ err \in {"fetch tags", "fetch releases", "get commits",
                                    "no tags or releases found"})
              => CallsTo("openai") = {} /\ requests = <<>>

C28_Witness ==
    /\ mode = "timeline"
    /\ Len(refs) = 3
    /\ Cardinality(CallsOf("CompareCommits")) = 2
    /\ Cardinality(CallsOf("GetCommit")) > 0
    /\ Cardinality(CallsTo("openai")) = 2

\* C29: with one reference point in the window GetTimelineReleases returns
\* no segment and no error and fetches no commit range; GenerateTimeline
\* sends no request to the language model and returns a timeline without
\* releases, whose markdown holds the title and the date range only.
C29_OneRefGivesEmptyTimeline ==
    (mode = "timeline" /\ Len(refs) = 1) =>
        /\ timelineReleases = <<>>
        /\ CallsOf("CompareCommits") = {}
        /\ CallsTo("openai") = {} /\ requests = <<>>
        /\ releaseChangelogs = <<>>
        /\ pc \in {"releases", "done"}
        /\ err \in {"", "write output file"}
        /\ pc = "done" =>
              markdown = <<<<"# Release Notes:", <<cfg.RepoOwner, "/", cfg.RepoName>>>>,
                           <<"**Timeline:**", ToString(fromDate), ToString(toDate)>>>>

C29_Witness ==
    /\ mode = "timeline" /\ Len(refs) = 1
    /\ pc = "done" /\ err = ""
    /\ Len(markdown) = 2
    /\ stdout = <<markdown>>

\* the pieces of a prompt that name a commit
IsCommitLine(piece) == Len(piece) = 4 /\ piece[2] = ". Commit: "

\* C30: BuildChangelogPrompt completes without a run-time failure whatever
\* the length of the hash of each commit, a hash shorter than 8 characters
\* and the empty hash too, and names each commit by the first 8 characters
\* of its hash, or by the whole hash when it is shorter.
C30_PromptForEveryHashLength ==
    Returned("BuildChangelogPrompt") =>
        /\ ~ret.panic
        /\ LET named == SelectSeq(ret.text, IsCommitLine)
               commitInfos == arg.req.Commits
           IN  /\ Len(named) = Len(commitInfos)
               /\ \A i \in 1..Len(commitInfos) :
                     named[i][3] = IF Len(commitInfos[i].SHA) > 8
                                   THEN SubSeq(commitInfos[i].SHA, 1, 8)
                                   ELSE commitInfos[i].SHA

====
